---- MODULE Spec2Model ----
(***************************************************************************)
(* Indoor positioning and navigation engine (konzepapp).                   *)
(*                                                                         *)
(* Lengths are integers in centimetres and times integers in milliseconds. *)
(* All maps and query points of the model are chosen axis-aligned, so the  *)
(* integer arithmetic below (Math.hypot as an integer square root, the     *)
(* projection parameter t as a fraction num/den) is exact on the distances *)
(* that decide a comparison.                                               *)
(*                                                                         *)
(* Intermediate results are bound with  CHOOSE r \in {F(v) : v \in {e}}    *)
(* where a loop carries them on: a value bound by a quantifier is computed *)
(* once, an operator argument every time it is used.                       *)
(***************************************************************************)
EXTENDS Integers, Sequences, FiniteSets, TLC

VARIABLES
    \* ---- clock shared by the hooks (Date.now())
    now,
    \* ---- shortestPathFromPoint applied to drawn inputs
    rMap, rStart, rEnd, rResult, rPc,
    \* ---- a pure function applied to drawn inputs: its arguments, its result
    fnArgs, fnResult, fnPc,
    \* ---- useIndoorNavigation: its args, state, refs
    navEnabled,        \* args.enabled
    destinationId,     \* args.destinationId (NoId = null)
    current,           \* args.current (NoPoint = null)
    route,             \* useState route (NoPath = null)
    offRoute,          \* useState offRoute
    offRouteSinceRef,  \* 0 = null (the code tests it for truthiness)
    lastRecalcAtRef,
    navDirty,          \* a state update is waiting for its re-render
    navLog,            \* history of the last commit and of the recalc runs
    \* ---- useIndoorPositioning: its args, refs, state
    enabled,           \* args.enabled
    wifiEnabled,       \* args.wifiEnabled (the platform is not iOS)
    start,             \* args.start
    engineRef,         \* the PdrEngine
    prevEdgeRef,       \* NoEdge = null
    kalmanRef,         \* NoKalman = null
    headingSmoothedRef,
    rawPosRef,
    state,             \* useState: [pose, path, steps, wifi: [enabled]] (NoPose = null)
    scans,             \* the scanWifiNow calls: how many began, which wait for scanWifi()
    effects,           \* the runs of the subscription effect still to be reckoned with
    posLog             \* history of the last handler

routeVars == <<rMap, rStart, rEnd, rResult, rPc>>
fnVars == <<fnArgs, fnResult, fnPc>>
navVars == <<navEnabled, destinationId, current, route, offRoute, offRouteSinceRef,
             lastRecalcAtRef, navDirty, navLog>>
posVars == <<enabled, wifiEnabled, start, engineRef, prevEdgeRef, kalmanRef,
             headingSmoothedRef, rawPosRef, state, scans, effects, posLog>>
vars == <<now, routeVars, fnVars, navVars, posVars>>

(***************************************************************************)
(* Values standing for JavaScript's null / undefined / Infinity.           *)
(***************************************************************************)
NoId == ""
NoEdge == [from |-> NoId, to |-> NoId]
NoDistance == -1
Infinity == 1000000000
virtualId == "__start__"

(***************************************************************************)
(* geometry.ts                                                             *)
(***************************************************************************)
clamp(n, lo, hi) == IF n < lo THEN lo ELSE IF n > hi THEN hi ELSE n

abs(n) == IF n < 0 THEN -n ELSE n

\* Math.hypot(dx, dy) on integer centimetres: the integer square root of
\* dx^2 + dy^2, which lies between max(|dx|, |dy|) and |dx| + |dy|.
hypot(dx, dy) ==
    CHOOSE r \in (IF abs(dx) > abs(dy) THEN abs(dx) ELSE abs(dy))..(abs(dx) + abs(dy)) :
        r * r <= dx * dx + dy * dy /\ (r + 1) * (r + 1) > dx * dx + dy * dy

dist(a, b) == hypot(a.x - b.x, a.y - b.y)

\* t is kept as the fraction num/den (t = 0 is 0/1).
projectPointToSegment(p, a, b) ==
    LET abx == b.x - a.x
        aby == b.y - a.y
        apx == p.x - a.x
        apy == p.y - a.y
        denom == abx * abx + aby * aby
        num == IF denom <= 0 THEN 0 ELSE clamp(apx * abx + apy * aby, 0, denom)
        den == IF denom <= 0 THEN 1 ELSE denom
    IN  CHOOSE r \in
          {[t |-> [num |-> num, den |-> den], point |-> q,
            distance |-> hypot(p.x - q.x, p.y - q.y)] :
             q \in {[x |-> a.x + (abx * num) \div den, y |-> a.y + (aby * num) \div den]}} : TRUE

(***************************************************************************)
(* storeMap.ts: nodes [id, x, y], edges [from, to, distance, bidirectional]*)
(* (distance = NoDistance when unset; bidirectional defaults to TRUE).     *)
(***************************************************************************)
Node(id, x, y) == [id |-> id, x |-> x, y |-> y]
Edge(f, t, d, bi) == [from |-> f, to |-> t, distance |-> d, bidirectional |-> bi]
Pt(x, y) == [x |-> x, y |-> y]

HasNode(map, id) == \E i \in 1..Len(map.nodes) : map.nodes[i].id = id
\* new Map(nodes.map(n => [n.id, n])).get(id); ids are unique in the maps used.
nodeById(map, id) == map.nodes[CHOOSE i \in 1..Len(map.nodes) : map.nodes[i].id = id]

(***************************************************************************)
(* snapToGraph.ts                                                          *)
(***************************************************************************)
ConnectedPenalty == 8

\* Every edge taken as usable.
isUsableEdgeAlways(e) == TRUE

isUsableEdge(e) ==
    (IF e.distance = NoDistance THEN 0 ELSE e.distance) > 0 \/ e.bidirectional # FALSE

NoSnap(point) ==
    [found |-> FALSE, snapped |-> point, distance |-> Infinity, edge |-> NoEdge,
     t |-> [num |-> 0, den |-> 1]]

\* The loop body of bestOnEdges for candidate i: acc = [best, bestScore].
RECURSIVE bestOnEdgesFrom(_, _, _, _, _, _, _)
bestOnEdgesFrom(map, point, prev, switchPenaltyMeters, cand, i, acc) ==
    IF i > Len(cand) THEN acc.best
    ELSE
      LET e == cand[i] IN
      IF ~HasNode(map, e.from) \/ ~HasNode(map, e.to)
      THEN bestOnEdgesFrom(map, point, prev, switchPenaltyMeters, cand, i + 1, acc)
      ELSE
        LET a == nodeById(map, e.from)
            b == nodeById(map, e.to)
            edgeId == [from |-> e.from, to |-> e.to]
            isPrev == prev # NoEdge /\
                      ((prev.from = edgeId.from /\ prev.to = edgeId.to) \/
                       (prev.from = edgeId.to /\ prev.to = edgeId.from))
            isConnectedToPrev == prev # NoEdge /\
                      (prev.from = edgeId.from \/ prev.from = edgeId.to \/
                       prev.to = edgeId.from \/ prev.to = edgeId.to)
            penalty == IF isPrev THEN 0
                       ELSE IF isConnectedToPrev THEN ConnectedPenalty
                       ELSE switchPenaltyMeters
            next(proj) ==
                IF ~acc.best.found \/ proj.distance + penalty < acc.bestScore
                THEN [best |-> [found |-> TRUE, snapped |-> proj.point,
                                distance |-> proj.distance, edge |-> edgeId, t |-> proj.t],
                      bestScore |-> proj.distance + penalty]
                ELSE acc
        IN  CHOOSE r \in
              {bestOnEdgesFrom(map, point, prev, switchPenaltyMeters, cand, i + 1, n) :
                 n \in {next(pr) :
                          pr \in {projectPointToSegment(point, Pt(a.x, a.y), Pt(b.x, b.y))}}} : TRUE

bestOnEdges(map, point, prev, switchPenaltyMeters, candidateEdges) ==
    bestOnEdgesFrom(map, point, prev, switchPenaltyMeters, candidateEdges, 1,
                    [best |-> NoSnap(point), bestScore |-> Infinity])

\* The global best whatever hardClamp and the previous edge say.
snapToGraphGlobalOnly(map, point, opts) ==
    bestOnEdges(map, point, opts.previousEdge, opts.switchPenaltyMeters,
                SelectSeq(map.edges, isUsableEdge))

\* snapToGraph giving back the input point beyond maxSnapMeters even with hardClamp
snapToGraphUnclamped(map, point, opts) ==
    LET maxSnapMeters == opts.maxSnapMeters
        prev == opts.previousEdge
        hardClamp == opts.hardClamp
        IsUsable(e) == isUsableEdge(e)
        edges == SelectSeq(map.edges, IsUsable)
        Incident(e) == e.from \in {prev.from, prev.to} \/ e.to \in {prev.from, prev.to}
        connected == SelectSeq(edges, Incident)
        relocalize(bestConnected, bestGlobal) ==
            4 * bestConnected.distance > 9 * maxSnapMeters /\
            bestGlobal.distance + 20 < bestConnected.distance
        pick(bestConnected, bestGlobal) ==
            IF hardClamp /\ prev # NoEdge
            THEN IF bestConnected.found /\ bestGlobal.found
                 THEN (IF relocalize(bestConnected, bestGlobal) THEN bestGlobal
                       ELSE bestConnected)
                 ELSE (IF bestConnected.found THEN bestConnected ELSE bestGlobal)
            ELSE bestGlobal
        result(best) ==
            IF ~best.found THEN NoSnap(point)
            ELSE IF best.distance > maxSnapMeters
                 THEN [best EXCEPT !.snapped = point]
                 ELSE best
    IN  CHOOSE r \in
          {result(best) :
             best \in {pick(bc, bg) :
                         bc \in {bestOnEdges(map, point, prev, opts.switchPenaltyMeters, connected)},
                         bg \in {bestOnEdges(map, point, prev, opts.switchPenaltyMeters, edges)}}} : TRUE

\* opts = [maxSnapMeters, previousEdge, switchPenaltyMeters, hardClamp]
snapToGraph(map, point, opts) ==
    LET maxSnapMeters == opts.maxSnapMeters
        prev == opts.previousEdge
        hardClamp == opts.hardClamp
        IsUsable(e) == isUsableEdge(e)
        edges == SelectSeq(map.edges, IsUsable)
        Incident(e) == e.from \in {prev.from, prev.to} \/ e.to \in {prev.from, prev.to}
        connected == SelectSeq(edges, Incident)
        relocalize(bestConnected, bestGlobal) ==
            4 * bestConnected.distance > 9 * maxSnapMeters /\
            bestGlobal.distance + 20 < bestConnected.distance
        pick(bestConnected, bestGlobal) ==
            IF hardClamp /\ prev # NoEdge
            THEN IF bestConnected.found /\ bestGlobal.found
                 THEN (IF relocalize(bestConnected, bestGlobal) THEN bestGlobal
                       ELSE bestConnected)
                 ELSE (IF bestConnected.found THEN bestConnected ELSE bestGlobal)
            ELSE bestGlobal
        result(best) ==
            IF ~best.found THEN NoSnap(point)
            ELSE IF ~hardClamp /\ best.distance > maxSnapMeters
                 THEN [best EXCEPT !.snapped = point]
                 ELSE best
    IN  CHOOSE r \in
          {result(best) :
             best \in {pick(bc, bg) :
                         bc \in {bestOnEdges(map, point, prev, opts.switchPenaltyMeters, connected)},
                         bg \in {bestOnEdges(map, point, prev, opts.switchPenaltyMeters, edges)}}} : TRUE

\* The defaults of snapToGraph's opts (maxSnapMeters is always passed by the callers).
DefaultSwitchPenalty == 35
SnapOpts(maxSnap) ==
    [maxSnapMeters |-> maxSnap, previousEdge |-> NoEdge,
     switchPenaltyMeters |-> DefaultSwitchPenalty, hardClamp |-> FALSE]

RECURSIVE nearestFrom(_, _, _, _, _)
nearestFrom(map, point, i, bestId, best) ==
    IF i > Len(map.nodes) THEN bestId
    ELSE LET n == map.nodes[i]
             d == dist(point, Pt(n.x, n.y))
         IN  IF d < best THEN nearestFrom(map, point, i + 1, n.id, d)
             ELSE nearestFrom(map, point, i + 1, bestId, best)

nearestNodeId(map, point) == nearestFrom(map, point, 1, NoId, Infinity)

(***************************************************************************)
(* shortestPath.ts                                                         *)
(***************************************************************************)
\* adj[id]: the {to, w} entries pushed for id, in the order of the edge list.
RECURSIVE adjList(_, _, _, _)
adjList(nodes, edges, id, i) ==
    IF i > Len(edges) THEN <<>>
    ELSE
      LET e == edges[i]
          known(x) == \E k \in 1..Len(nodes) : nodes[k].id = x
          at(x) == nodes[CHOOSE k \in 1..Len(nodes) : nodes[k].id = x]
          rest == adjList(nodes, edges, id, i + 1)
      IN  IF ~known(e.from) \/ ~known(e.to) THEN rest
          ELSE
            LET w == IF e.distance # NoDistance THEN e.distance ELSE dist(at(e.from), at(e.to))
                fwd == IF e.from = id THEN <<[to |-> e.to, w |-> w]>> ELSE <<>>
                bwd == IF e.bidirectional # FALSE /\ e.to = id
                       THEN <<[to |-> e.from, w |-> w]>> ELSE <<>>
            IN  fwd \o bwd \o rest

\* Every edge pushed in both directions, whatever its bidirectional flag.
buildAdjacencyBothWays(nodes, edges) ==
    [id \in {nodes[k].id : k \in 1..Len(nodes)} |->
        adjList(nodes, [k \in 1..Len(edges) |-> [edges[k] EXCEPT !.bidirectional = TRUE]], id, 1)]

buildAdjacency(nodes, edges) ==
    [id \in {nodes[k].id : k \in 1..Len(nodes)} |-> adjList(nodes, edges, id, 1)]

\* A relaxation that sets a tentative distance once and never improves it.
RECURSIVE relaxFirstOnly(_, _, _, _, _)
relaxFirstOnly(nbrs, i, u, q, st) ==
    IF i > Len(nbrs) THEN st
    ELSE LET to == nbrs[i].to
             alt == st.dist[u] + nbrs[i].w
             next == IF to \in q /\ st.dist[to] >= Infinity
                     THEN [dist |-> [st.dist EXCEPT ![to] = alt],
                           prev |-> [st.prev EXCEPT ![to] = u]]
                     ELSE st
         IN  CHOOSE r \in {relaxFirstOnly(nbrs, i + 1, u, q, n) : n \in {next}} : TRUE

\* adj[u].forEach: relax the neighbours of u in order; st = [dist, prev].
RECURSIVE relax(_, _, _, _, _)
relax(nbrs, i, u, q, st) ==
    IF i > Len(nbrs) THEN st
    ELSE LET to == nbrs[i].to
             alt == st.dist[u] + nbrs[i].w
             next == IF to \in q /\ alt < st.dist[to]
                     THEN [dist |-> [st.dist EXCEPT ![to] = alt],
                           prev |-> [st.prev EXCEPT ![to] = u]]
                     ELSE st
         IN  CHOOSE r \in {relax(nbrs, i + 1, u, q, n) : n \in {next}} : TRUE

\* q.forEach picking the first id (in insertion order) of least tentative distance.
RECURSIVE pickMin(_, _, _, _, _, _)
pickMin(keys, i, q, distMap, u, best) ==
    IF i > Len(keys) THEN u
    ELSE IF keys[i] \in q /\ distMap[keys[i]] < best
         THEN pickMin(keys, i + 1, q, distMap, keys[i], distMap[keys[i]])
         ELSE pickMin(keys, i + 1, q, distMap, u, best)

RECURSIVE dijkstraLoop(_, _, _, _)
dijkstraLoop(adj, keys, q, st) ==
    IF q = {} THEN st
    ELSE LET step(u) ==
                 IF u = NoId THEN st
                 ELSE CHOOSE r \in {dijkstraLoop(adj, keys, q \ {u}, n) :
                                      n \in {relax(adj[u], 1, u, q \ {u}, st)}} : TRUE
         IN  CHOOSE r \in {step(u) : u \in {pickMin(keys, 1, q, st.dist, NoId, Infinity)}} : TRUE

\* keys = Object.keys(adj): the node ids in insertion order.
dijkstra(adj, keys, startId) ==
    CHOOSE r \in
      {dijkstraLoop(adj, keys, DOMAIN adj, st) :
         st \in {[dist |-> [id \in DOMAIN adj |-> IF id = startId THEN 0 ELSE Infinity],
                  prev |-> [id \in DOMAIN adj |-> NoId]]}} : TRUE

\* The path is built backwards from endId and then reversed.
RECURSIVE reconstruct(_, _, _)
reconstruct(prev, startId, cur) ==
    IF cur = NoId THEN <<>>
    ELSE IF cur = startId THEN <<cur>>
         ELSE CHOOSE r \in {reconstruct(prev, startId, c) \o <<cur>> : c \in {prev[cur]}} : TRUE

NoPath == [ok |-> FALSE, nodeIds |-> <<>>, points |-> <<>>, lengthMeters |-> 0]

RouteSnapMeters == 300

\* The virtual edges connecting the start to the graph.
virtualEdges(map, snapped, startPoint) ==
    LET virtualNode == Node(virtualId, snapped.snapped.x, snapped.snapped.y)
    IN  IF snapped.edge # NoEdge
        THEN IF HasNode(map, snapped.edge.from) /\ HasNode(map, snapped.edge.to)
             THEN LET a == nodeById(map, snapped.edge.from)
                      b == nodeById(map, snapped.edge.to)
                  IN  <<Edge(virtualId, a.id, dist(virtualNode, a), TRUE),
                        Edge(virtualId, b.id, dist(virtualNode, b), TRUE)>>
             ELSE <<>>
        ELSE LET nearest == nearestNodeId(map, startPoint)
             IN  IF nearest # NoId
                 THEN <<Edge(virtualId, nearest,
                             dist(virtualNode, nodeById(map, nearest)), TRUE)>>
                 ELSE <<>>

RECURSIVE polyLength(_, _)
polyLength(points, i) ==
    IF i > Len(points) THEN 0
    ELSE dist(points[i - 1], points[i]) + polyLength(points, i + 1)

shortestPathFromPoint(map, startPoint, endNodeId) ==
    IF ~HasNode(map, endNodeId) THEN NoPath
    ELSE
      LET virtualNode(snapped) == Node(virtualId, snapped.snapped.x, snapped.snapped.y)
          nodes(snapped) == Append(map.nodes, virtualNode(snapped))
          edges(snapped) == map.edges \o virtualEdges(map, snapped, startPoint)
          keys == [k \in 1..Len(map.nodes) + 1 |->
                     IF k <= Len(map.nodes) THEN map.nodes[k].id ELSE virtualId]
          path(snapped, nodeIds) ==
              CHOOSE r \in
                {[ok |-> TRUE, nodeIds |-> nodeIds, points |-> points,
                  lengthMeters |-> polyLength(points, 2)] :
                   points \in {[k \in 1..Len(nodeIds) |->
                                  IF nodeIds[k] = virtualId
                                  THEN Pt(snapped.snapped.x, snapped.snapped.y)
                                  ELSE Pt(nodeById(map, nodeIds[k]).x,
                                          nodeById(map, nodeIds[k]).y)]}} : TRUE
          finish(snapped, res) ==
              IF (IF endNodeId \in DOMAIN res.dist THEN res.dist[endNodeId] ELSE Infinity)
                    >= Infinity
              THEN NoPath
              ELSE CHOOSE r \in
                     {path(snapped, nodeIds) :
                        nodeIds \in {reconstruct(res.prev, virtualId, endNodeId)}} : TRUE
          search(snapped) ==
              CHOOSE r \in
                {finish(snapped, res) :
                   res \in {dijkstra(a, keys, virtualId) :
                              a \in {buildAdjacency(nodes(snapped), edges(snapped))}}} : TRUE
      IN  CHOOSE r \in
            {search(snapped) :
               snapped \in {snapToGraph(map, startPoint, SnapOpts(RouteSnapMeters))}} : TRUE

(***************************************************************************)
(* Maps and inputs of the model.                                           *)
(***************************************************************************)
\* An L-shaped corridor w1-w2-w3, a one-way edge p1 -> w3, an edge to an
\* unknown node and an isolated node p2.
MapCorridor ==
    [nodes |-> <<Node("w1", 0, 0), Node("w2", 400, 0), Node("w3", 400, 300),
                 Node("p1", 800, 300), Node("p2", 800, 0)>>,
     edges |-> <<Edge("w1", "w2", NoDistance, TRUE), Edge("w2", "w3", NoDistance, TRUE),
                 Edge("p1", "w3", 400, FALSE), Edge("w3", "ghost", NoDistance, TRUE)>>]

\* The test plans of houseFloorplan.ts: two nodes and no edge.
MapHouse ==
    [nodes |-> <<Node("entry", 100, 100), Node("exit", 800, 800)>>,
     edges |-> <<>>]

\* A triangle whose direct edge a-c carries a distance longer than the detour.
MapTriangle ==
    [nodes |-> <<Node("a", 0, 0), Node("b", 300, 0), Node("c", 300, 400)>>,
     edges |-> <<Edge("a", "c", 900, TRUE), Edge("a", "b", NoDistance, TRUE),
                 Edge("b", "c", NoDistance, TRUE)>>]

Maps == <<MapCorridor, MapHouse, MapTriangle>>

StartPoints == {Pt(200, 0), Pt(600, 300), Pt(0, 400), Pt(100, 100), Pt(800, 700)}
EndIds == {"w1", "w3", "p1", "p2", "entry", "exit", "a", "c", "zz"}

(***************************************************************************)
(* The clock.  Date.now() is milliseconds since 1970, so at construction   *)
(* it already exceeds every interval the code compares it with.            *)
(***************************************************************************)
TickMs == 300
MaxTicks == 12
Epoch == 10 * TickMs
TickSteps == {2, 5}

(***************************************************************************)
(* routeProgress.ts                                                        *)
(***************************************************************************)
\* The loop of computeRouteProgress from segment i on; only the distance and the
\* segment of the closest projection are carried (best.found = FALSE is null).
RECURSIVE routeProgressFrom(_, _, _, _)
routeProgressFrom(polyline, point, i, best) ==
    IF i > Len(polyline) - 1 THEN best
    ELSE LET next(proj) ==
                 IF ~best.found \/ proj.distance < best.distanceMeters
                 THEN [found |-> TRUE, distanceMeters |-> proj.distance,
                       closest |-> proj.point, segmentIndex |-> i - 1, t |-> proj.t]
                 ELSE best
         IN  CHOOSE r \in
               {routeProgressFrom(polyline, point, i + 1, n) :
                  n \in {next(pr) :
                           pr \in {projectPointToSegment(point, polyline[i], polyline[i + 1])}}} : TRUE

NoProgress ==
    [found |-> FALSE, distanceMeters |-> 0, closest |-> Pt(0, 0), segmentIndex |-> 0,
     t |-> [num |-> 0, den |-> 1]]

computeRouteProgress(polyline, point) ==
    IF Len(polyline) < 2 THEN NoProgress
    ELSE routeProgressFrom(polyline, point, 1, NoProgress)

(***************************************************************************)
(* pdrMath.ts (headings in whole degrees)                                  *)
(***************************************************************************)
\* JavaScript's %: the remainder has the sign of the dividend.
jsRem(n, m) == IF n >= 0 THEN n % m ELSE -((-n) % m)

wrapHeading(deg) == LET h == jsRem(deg, 360) IN IF h < 0 THEN h + 360 ELSE h

headingDiff(a, b) == jsRem(a - b + 540, 360) - 180

\* alpha in hundredths
lowPassHeading(prevDeg, nextDeg, alpha) ==
    wrapHeading(prevDeg + (headingDiff(nextDeg, prevDeg) * clamp(alpha, 0, 100)) \div 100)

(***************************************************************************)
(* turnByTurn.ts (bearings in whole degrees)                               *)
(***************************************************************************)
\* Math.atan2(dx, -dy) in degrees, rounded, for the directions the polylines of
\* the model are made of: 0 is -y (up on the plan), 90 is +x.
BearingTable ==
    {[dx |-> 0, dy |-> -1, deg |-> 0], [dx |-> 1, dy |-> -2, deg |-> 27],
     [dx |-> 8, dy |-> -15, deg |-> 28], [dx |-> 1, dy |-> -1, deg |-> 45],
     [dx |-> 1, dy |-> 0, deg |-> 90], [dx |-> 1, dy |-> 1, deg |-> 135],
     [dx |-> 0, dy |-> 1, deg |-> 180], [dx |-> -1, dy |-> 1, deg |-> 225],
     [dx |-> -1, dy |-> 0, deg |-> 270], [dx |-> -1, dy |-> -1, deg |-> 315]}

\* Two equal points give atan2(0, -0), which is pi.
bearingDeg(a, b) ==
    LET dx == b.x - a.x
        dy == b.y - a.y
    IN  IF dx = 0 /\ dy = 0 THEN 180
        ELSE (CHOOSE d \in BearingTable :
                 dx * d.dy = dy * d.dx /\ dx * d.dx + dy * d.dy > 0).deg

angleDiff(a, b) == jsRem(a - b + 540, 360) - 180

\* A classification that lets turns of 18 degrees and more through.
classifyTurnFrom18(delta) ==
    IF abs(delta) < 18 THEN "straight"
    ELSE IF abs(delta) > 150 THEN "uturn"
    ELSE IF delta > 0 THEN "right" ELSE "left"

classifyTurn(delta) ==
    IF abs(delta) < 28 THEN "straight"
    ELSE IF abs(delta) > 150 THEN "uturn"
    ELSE IF delta > 0 THEN "right" ELSE "left"

Maneuver(type, atIndex, point, distanceFromStartMeters, instruction) ==
    [type |-> type, atIndex |-> atIndex, point |-> point,
     distanceFromStartMeters |-> distanceFromStartMeters, instruction |-> instruction]

\* The loop over the interior vertices; i is the 0-based index of the code, so
\* the vertex is polyline[i + 1].
RECURSIVE interiorManeuvers(_, _, _)
interiorManeuvers(polyline, i, cumulative) ==
    IF i >= Len(polyline) - 1 THEN <<>>
    ELSE
      LET prev == polyline[i]
          cur == polyline[i + 1]
          next == polyline[i + 2]
          delta == angleDiff(bearingDeg(cur, next), bearingDeg(prev, cur))
          turn == classifyTurn(delta)
          label == IF turn = "left" THEN "Turn left"
                   ELSE IF turn = "right" THEN "Turn right" ELSE "Make a U-turn"
          rest(c) == (IF turn = "straight" THEN <<>>
                      ELSE <<Maneuver(turn, i, cur, c, label)>>)
                     \o interiorManeuvers(polyline, i + 1, c)
      IN  CHOOSE r \in {rest(c) : c \in {cumulative + dist(prev, cur)}} : TRUE

buildManeuvers(polyline) ==
    IF Len(polyline) < 2 THEN <<>>
    ELSE <<Maneuver("start", 0, polyline[1], 0, "Start")>>
         \o interiorManeuvers(polyline, 1, 0)
         \o <<Maneuver("arrive", Len(polyline) - 1, polyline[Len(polyline)],
                        polyLength(polyline, 2), "Arrive")>>

NoManeuver == Maneuver("none", 0, [x |-> 0, y |-> 0], 0, "")

\* String.toLowerCase on the instructions buildManeuvers writes
toLowerCase(instruction) ==
    IF instruction = "Turn left" THEN "turn left"
    ELSE IF instruction = "Turn right" THEN "turn right"
    ELSE IF instruction = "Make a U-turn" THEN "make a u-turn"
    ELSE IF instruction = "Start" THEN "start"
    ELSE IF instruction = "Arrive" THEN "arrive"
    ELSE instruction

\* Math.ceil of a distance in centimetres, in metres
ceilMeters(distanceMeters) == (distanceMeters + 99) \div 100

\* Math.round of a distance in centimetres, in metres (halves go up)
roundMeters(distanceMeters) == (distanceMeters + 50) \div 100

\* distanceMeters in centimetres, NoDistance = null
formatNextInstruction(maneuver, distanceMeters) ==
    IF maneuver = NoManeuver THEN "Select a destination"
    ELSE IF maneuver.type = "start" THEN "Start walking"
    ELSE IF maneuver.type = "arrive"
         THEN (IF distanceMeters # NoDistance /\ distanceMeters < 200 THEN "Arrive"
               ELSE "Continue to destination")
    ELSE IF distanceMeters = NoDistance THEN maneuver.instruction
    ELSE LET r == roundMeters(distanceMeters)
             m == IF r < 0 THEN 0 ELSE r
         IN  "In " \o ToString(m) \o "m, " \o toLowerCase(maneuver.instruction)

(***************************************************************************)
(* fusion/kalman2d (section 4.2 of the specification; the file is not part *)
(* of the sources).  Variances are in cm^2.  create makes P = sigma^2 I    *)
(* and neither predict nor update touches p01, so P stays diagonal and the *)
(* gain K = P S^-1 is p/(p + r) on each axis; it is kept in thousandths.   *)
(***************************************************************************)
NoKalman == [x |-> 0, y |-> 0, p00 |-> -1, p01 |-> 0, p11 |-> -1]

createKalman2D(p, posSigma) ==
    [x |-> p.x, y |-> p.y, p00 |-> posSigma * posSigma, p01 |-> 0,
     p11 |-> posSigma * posSigma]

\* q = max(10^-6 m^2, procSigma^2): below one cm^2 the floor is one cm^2.
predictKalman2D(k, d, procSigma) ==
    LET q == IF procSigma * procSigma < 1 THEN 1 ELSE procSigma * procSigma
    IN  [k EXCEPT !.x = k.x + d.x, !.y = k.y + d.y, !.p00 = k.p00 + q, !.p11 = k.p11 + q]

\* S = P + r I; the update is skipped when S is singular.
updateKalman2D(k, z, measSigma) ==
    LET r == IF measSigma * measSigma < 1 THEN 1 ELSE measSigma * measSigma
        s00 == k.p00 + r
        s11 == k.p11 + r
        k0 == (1000 * k.p00) \div s00
        k1 == (1000 * k.p11) \div s11
    IN  IF s00 <= 0 \/ s11 <= 0 THEN k
        ELSE [k EXCEPT !.x = k.x + (k0 * (z.x - k.x)) \div 1000,
                       !.y = k.y + (k1 * (z.y - k.y)) \div 1000,
                       !.p00 = k.p00 - (k0 * k.p00) \div 1000,
                       !.p11 = k.p11 - (k1 * k.p11) \div 1000]

(***************************************************************************)
(* wifiFix.ts.  A fix is [x, y, matched, bestLevel]; the confidence is in  *)
(* ten-thousandths.                                                        *)
(***************************************************************************)
NoFix == [x |-> 0, y |-> 0, matched |-> 0, bestLevel |-> 0]

wifiConfidenceFromFix(fix) ==
    IF fix = NoFix THEN 0
    ELSE LET base == clamp(((fix.bestLevel + 100) * 10000) \div 55, 1500, 9500)
             multiBoost == clamp(800 * (fix.matched - 1), 0, 2000)
         IN  clamp(base + multiBoost, 1500, 9800)

(***************************************************************************)
(* pdrEngine.ts.  A device-motion sample is what the detector makes of it: *)
(*   high       linMag > threshold                                         *)
(*   belowMean  linMag < mean of the window                                *)
(*   low        linMag < max(0.02, threshold / 4)                          *)
(*   peakOver   (peak.max - threshold) after this sample, in cm/s^2        *)
(*   yaw        rotation.alpha in whole degrees, NoYaw when the sample     *)
(*              carries no rotation                                        *)
(* No sample carries a rotation rate and no magnetometer sample is         *)
(* delivered, so magHeadingDeg stays at the 0 every reset of this program  *)
(* gives it and magReliability at 0.5.  Headings are whole degrees.        *)
(* Of the engine the fields that decide a step are kept; 0 stands for null *)
(* in stationarySince as it does in lastStepAt.                            *)
(***************************************************************************)
MinStepIntervalMs == 280
StationaryMs == 600
RecentStepMs == 1800

\* PdrEngine.magReliability in hundredths, as constructed and as reset leaves it
MagReliability == 50
NoYaw == -1
\* PdrEngine.magHeadingDeg, as constructed and as reset(0) leaves it
MagHeadingDeg == 0
\* the gain of the magnetic correction when not turning fast, in thousandths
MagGain == 8 + (50 * MagReliability) \div 100

\* n / d rounded to the nearest whole number
roundDiv(n, d) == IF n >= 0 THEN (2 * n + d) \div (2 * d) ELSE -((2 * (-n) + d) \div (2 * d))

\* A heading fusion that follows the attitude yaw all the way in one sample.
fuseHeadingUnclamped(headingDeg, yaw) ==
    LET h1 == IF yaw = NoYaw THEN headingDeg
              ELSE wrapHeading(headingDeg + headingDiff(yaw, headingDeg))
        err == headingDiff(MagHeadingDeg, h1)
    IN  wrapHeading(h1 + roundDiv(err * MagGain, 1000))

\* The heading part of handleDeviceMotion: the nudge towards the attitude yaw,
\* no yaw rate, the magnetic correction.
fuseHeading(headingDeg, yaw) ==
    LET h1 == IF yaw = NoYaw THEN headingDeg
              ELSE wrapHeading(headingDeg + clamp(headingDiff(yaw, headingDeg), -20, 20))
        err == headingDiff(MagHeadingDeg, h1)
    IN  wrapHeading(h1 + roundDiv(err * MagGain, 1000))

NewEngine ==
    [headingDeg |-> 0, strideScale |-> 100, stepLengthMeters |-> 60, pedometerSteps |-> 0,
     lastStepAt |-> 0, stationarySince |-> 0, inPeak |-> FALSE]

\* PdrEngine.reset({ headingDeg, strideScale }); the stride scale is in hundredths.
engineReset(e, headingDeg, strideScale) ==
    [e EXCEPT !.headingDeg = wrapHeading(headingDeg), !.lastStepAt = 0,
              !.stationarySince = 0, !.inPeak = FALSE, !.pedometerSteps = 0,
              !.strideScale = strideScale, !.stepLengthMeters = (60 * strideScale) \div 100]

\* A detector that lets a step through at 280 ms, not only after them.
handleDeviceMotionFrom280(e, sample, t) ==
    LET since == IF sample.low THEN (IF e.stationarySince = 0 THEN t ELSE e.stationarySince)
                 ELSE 0
        isStationary == since # 0 /\ t - since > StationaryMs
        e1 == [e EXCEPT !.headingDeg = fuseHeading(e.headingDeg, sample.yaw),
                        !.stationarySince = since]
        stepLen == clamp(62 + (sample.peakOver * 18) \div 100, 45, 105)
    IN  IF ~e.inPeak
        THEN [engine |-> [e1 EXCEPT !.inPeak = sample.high], step |-> FALSE]
        ELSE IF ~sample.belowMean THEN [engine |-> e1, step |-> FALSE]
        ELSE IF t - e.lastStepAt >= MinStepIntervalMs /\ sample.peakOver > 0 /\ ~isStationary
             THEN [engine |-> [e1 EXCEPT !.inPeak = FALSE, !.lastStepAt = t,
                                         !.stepLengthMeters = (stepLen * e.strideScale) \div 100],
                   step |-> TRUE]
             ELSE [engine |-> [e1 EXCEPT !.inPeak = FALSE], step |-> FALSE]

\* Returns [engine, step]: step says that onStep('deviceMotion', stepLengthMeters, t)
\* is called.
handleDeviceMotion(e, sample, t) ==
    LET since == IF sample.low THEN (IF e.stationarySince = 0 THEN t ELSE e.stationarySince)
                 ELSE 0
        isStationary == since # 0 /\ t - since > StationaryMs
        e1 == [e EXCEPT !.headingDeg = fuseHeading(e.headingDeg, sample.yaw),
                        !.stationarySince = since]
        stepLen == clamp(62 + (sample.peakOver * 18) \div 100, 45, 105)
    IN  IF ~e.inPeak
        THEN [engine |-> [e1 EXCEPT !.inPeak = sample.high], step |-> FALSE]
        ELSE IF ~sample.belowMean THEN [engine |-> e1, step |-> FALSE]
        ELSE IF t - e.lastStepAt > MinStepIntervalMs /\ sample.peakOver > 0 /\ ~isStationary
             THEN [engine |-> [e1 EXCEPT !.inPeak = FALSE, !.lastStepAt = t,
                                         !.stepLengthMeters = (stepLen * e.strideScale) \div 100],
                   step |-> TRUE]
             ELSE [engine |-> [e1 EXCEPT !.inPeak = FALSE], step |-> FALSE]

recentlyDeviceMotionNever(e, t) == FALSE

\* The pedometer listener's test of the engine's last step time.
recentlyDeviceMotion(e, t) == e.lastStepAt > 0 /\ t - e.lastStepAt < RecentStepMs

\* Returns [engine, step, count]: step says that onStep('pedometer', ..., t, count)
\* is called.
handlePedometerSteps(e, totalSteps, t, recently) ==
    LET prev == e.pedometerSteps
        delta == IF prev = 0 THEN 0 ELSE totalSteps - prev
        e1 == [e EXCEPT !.pedometerSteps = totalSteps]
    IN  IF delta > 0 /\ ~recently
        THEN [engine |-> [e1 EXCEPT !.lastStepAt = t], step |-> TRUE, count |-> delta]
        ELSE [engine |-> e1, step |-> FALSE, count |-> 0]

(***************************************************************************)
(* useIndoorPositioning.ts (in src/positioning/wifiFix.ts)                 *)
(***************************************************************************)
\* The args the application passes for its pilot store
PosMap == MapCorridor
MaxSnapMeters == 120
SwitchPenaltyMeters == 35
HardClamp == FALSE
WifiScanIntervalMs == 3200
StrideScale == 100
PathLimit == 240
StepCap == 20

NoPose == [x |-> 0, y |-> 0, headingDeg |-> 0, ts |-> 0, source |-> "none", snapped |-> FALSE]

\* One run of the subscription effect: where its start() stands, the effect's
\* cancelled flag, what it has subscribed, the interval timer with the time of
\* its next turn, the cumulative count of its pedometer subscription, and the
\* wifiEnabled of the render that created it.
NoEffect ==
    [pc |-> "none", cancelled |-> FALSE, magSub |-> FALSE, devMotionSub |-> FALSE,
     pedSub |-> FALSE, wifiTimer |-> FALSE, due |-> 0, steps |-> 0, wifi |-> FALSE]

\* ps = [engineRef, prevEdgeRef, kalmanRef, headingSmoothedRef, rawPosRef, state,
\* log]: the hook's refs and state while a handler runs.  log is history:
\*   resetDone         resetTo has run
\*   lastDeviceStepAt  the time of the last device-motion step event (0 = none)
\*   of the last handler: kind; at, its time; emitted, count: onStep was called, with this
\*     count; increase: by how much a pedometer count exceeded the last one seen
\*     (0 when none was seen); stopped: the scan that completed was in flight
\*     when the session was stopped and the session is still stopped; applied:
\*     a Wi-Fi fix went into the Kalman state; lenBefore: the length of the
\*     path buffer before it.
\*   p                 the point last passed to actions.resetTo
\*   lastStepEventAt   the time of the last step event of either source (0 = none);
\*     stepBefore: the same before the last handler
\*   offHeading        the engine's fused heading when args.wifiEnabled last went
\*     off; justOff: the last commit turned it on and the one before turned it off
PosState(kind) ==
    [engineRef |-> engineRef, prevEdgeRef |-> prevEdgeRef, kalmanRef |-> kalmanRef,
     headingSmoothedRef |-> headingSmoothedRef, rawPosRef |-> rawPosRef, state |-> state,
     log |-> [posLog EXCEPT !.kind = kind, !.at = now, !.emitted = FALSE, !.count = 0, !.increase = 0,
                            !.stopped = FALSE, !.applied = FALSE,
                            !.lenBefore = Len(state.path),
                            !.stepBefore = posLog.lastStepEventAt]]

\* The same for a commit that runs effects and no handler: the log stays.
PosEffects == [PosState(posLog.kind) EXCEPT !.log = posLog]

appendPathKeepsOneMore(path, p) ==
    LET s == Append(path, p)
    IN  IF Len(s) > PathLimit + 1 THEN SubSeq(s, Len(s) - PathLimit, Len(s)) ELSE s

\* [...path, p].slice(-240)
appendPath(path, p) ==
    LET s == Append(path, p)
    IN  IF Len(s) > PathLimit THEN SubSeq(s, Len(s) - PathLimit + 1, Len(s)) ELSE s

applyPoseUpdate(raw, ps) ==
    LET hSmooth == lowPassHeading(ps.headingSmoothedRef, wrapHeading(raw.headingDeg), 18)
        put(snapped) ==
            [ps EXCEPT !.rawPosRef = Pt(raw.x, raw.y),
                       !.prevEdgeRef = snapped.edge,
                       !.headingSmoothedRef = hSmooth,
                       !.state.pose = [x |-> snapped.snapped.x, y |-> snapped.snapped.y,
                                       headingDeg |-> hSmooth, ts |-> raw.ts,
                                       source |-> raw.source,
                                       snapped |-> snapped.distance <= MaxSnapMeters],
                       !.state.path = appendPath(ps.state.path,
                                                 Pt(snapped.snapped.x, snapped.snapped.y))]
    IN  CHOOSE r \in
          {put(s) : s \in {snapToGraph(PosMap, Pt(raw.x, raw.y),
                                       [maxSnapMeters |-> MaxSnapMeters,
                                        previousEdge |-> ps.prevEdgeRef,
                                        hardClamp |-> HardClamp,
                                        switchPenaltyMeters |-> SwitchPenaltyMeters])}} : TRUE

\* Math.sin and Math.cos of a heading that is a multiple of 90 degrees
sinDeg(h) == IF h = 90 THEN 1 ELSE IF h = 270 THEN -1 ELSE 0
cosDeg(h) == IF h = 0 THEN 1 ELSE IF h = 180 THEN -1 ELSE 0

RECURSIVE predictTimes(_, _, _, _)
predictTimes(k, d, procSigma, n) ==
    IF n <= 0 THEN k
    ELSE CHOOSE r \in {predictTimes(k1, d, procSigma, n - 1) :
                         k1 \in {predictKalman2D(k, d, procSigma)}} : TRUE

onStep(source, stepLenMeters, t, count, ps) ==
    LET base == IF ps.kalmanRef # NoKalman THEN Pt(ps.kalmanRef.x, ps.kalmanRef.y)
                ELSE ps.rawPosRef
        heading == ps.engineRef.headingDeg
        dx == sinDeg(heading) * stepLenMeters
        dy == -cosDeg(heading) * stepLenMeters
        total == IF count < StepCap THEN count ELSE StepCap
        go(k) ==
            applyPoseUpdate(
                [x |-> IF k # NoKalman THEN k.x ELSE base.x + dx * total,
                 y |-> IF k # NoKalman THEN k.y ELSE base.y + dy * total,
                 headingDeg |-> heading, ts |-> t,
                 source |-> IF k # NoKalman THEN "pdr_wifi" ELSE "pdr"],
                [ps EXCEPT !.kalmanRef = k, !.state.steps = ps.state.steps + total,
                           !.log.emitted = TRUE, !.log.count = count,
                           !.log.lastStepEventAt = t,
                           !.log.lastDeviceStepAt =
                               IF source = "deviceMotion" THEN t ELSE ps.log.lastDeviceStepAt])
    IN  CHOOSE r \in
          {go(k) : k \in {IF ps.kalmanRef = NoKalman THEN NoKalman
                          ELSE predictTimes(ps.kalmanRef, Pt(dx, dy),
                                            22 + (8 * (100 - MagReliability)) \div 100,
                                            total)}} : TRUE

\* A resetTo that forgets to clear the remembered edge and the step counter.
resetToKeepsEdge(p, wifi, ps) ==
    [ps EXCEPT !.engineRef = engineReset(ps.engineRef, 0, StrideScale),
               !.headingSmoothedRef = 0,
               !.rawPosRef = p,
               !.kalmanRef = IF wifi THEN createKalman2D(p, 150) ELSE NoKalman,
               !.state = [pose |-> [x |-> p.x, y |-> p.y, headingDeg |-> 0, ts |-> now,
                                    source |-> IF wifi THEN "pdr_wifi" ELSE "pdr",
                                    snapped |-> FALSE],
                          path |-> <<p>>, steps |-> ps.state.steps, wifi |-> ps.state.wifi],
               !.log.resetDone = TRUE]

\* resetTo as created by the render whose wifiEnabled is wifi
resetTo(p, wifi, ps) ==
    [ps EXCEPT !.prevEdgeRef = NoEdge,
               !.engineRef = engineReset(ps.engineRef, 0, StrideScale),
               !.headingSmoothedRef = 0,
               !.rawPosRef = p,
               !.kalmanRef = IF wifi THEN createKalman2D(p, 150) ELSE NoKalman,
               !.state = [pose |-> [x |-> p.x, y |-> p.y, headingDeg |-> 0, ts |-> now,
                                    source |-> IF wifi THEN "pdr_wifi" ELSE "pdr",
                                    snapped |-> FALSE],
                          path |-> <<p>>, steps |-> 0, wifi |-> ps.state.wifi],
               !.log.resetDone = TRUE]

\* The effect on [wifiEnabled]
wifiEnabledEffect(wifi, ps) ==
    LET shown == [ps EXCEPT !.state.wifi.enabled = wifi]
    IN  IF ~wifi THEN [shown EXCEPT !.kalmanRef = NoKalman]
        ELSE IF ps.kalmanRef = NoKalman
             THEN [shown EXCEPT !.kalmanRef = createKalman2D(ps.rawPosRef, 250)]
             ELSE shown

\* actions.setWifiEnabled: a state update and nothing else
setWifiEnabled(b, ps) ==
    [ps EXCEPT !.state.wifi.enabled = b]

\* scanWifiNow resetting the Kalman state on a far fix or a confident one
scanWifiDoneResetsOnEither(startedAt, fix, ps) ==
    IF fix = NoFix THEN ps
    ELSE LET conf == wifiConfidenceFromFix(fix)
             k0 == IF ps.kalmanRef = NoKalman THEN createKalman2D(fix, 300)
                   ELSE ps.kalmanRef
             hardReset == hypot(k0.x - fix.x, k0.y - fix.y) > 1000 \/ conf > 7500
             measSigma == clamp(600 - (conf * 52) \div 1000, 120, 600)
             go(k) ==
                 applyPoseUpdate(
                     [x |-> k.x, y |-> k.y, headingDeg |-> ps.engineRef.headingDeg,
                      ts |-> startedAt, source |-> "pdr_wifi"],
                     [ps EXCEPT !.kalmanRef = k, !.log.applied = TRUE])
         IN  CHOOSE r \in
               {go(k) : k \in {IF hardReset THEN createKalman2D(fix, 150)
                               ELSE updateKalman2D(k0, fix, measSigma)}} : TRUE

\* scanWifiNow after its await: the scan began at startedAt and gave fix (NoFix
\* when it gave none or threw).
scanWifiDone(startedAt, fix, ps) ==
    IF fix = NoFix THEN ps
    ELSE LET conf == wifiConfidenceFromFix(fix)
             k0 == IF ps.kalmanRef = NoKalman THEN createKalman2D(fix, 300)
                   ELSE ps.kalmanRef
             hardReset == hypot(k0.x - fix.x, k0.y - fix.y) > 1000 /\ conf > 7500
             measSigma == clamp(600 - (conf * 52) \div 1000, 120, 600)
             go(k) ==
                 applyPoseUpdate(
                     [x |-> k.x, y |-> k.y, headingDeg |-> ps.engineRef.headingDeg,
                      ts |-> startedAt, source |-> "pdr_wifi"],
                     [ps EXCEPT !.kalmanRef = k, !.log.applied = TRUE])
         IN  CHOOSE r \in
               {go(k) : k \in {IF hardReset THEN createKalman2D(fix, 150)
                               ELSE updateKalman2D(k0, fix, measSigma)}} : TRUE

\* The cleanup of the subscription effect, for every run that is not cancelled yet
\* (there is at most one).  A run whose start() has finished is forgotten.
cleanup(effs) ==
    [i \in DOMAIN effs |->
        IF effs[i].pc = "none" \/ effs[i].cancelled THEN effs[i]
        ELSE IF effs[i].pc = "done" THEN NoEffect
        ELSE [effs[i] EXCEPT !.cancelled = TRUE, !.magSub = FALSE, !.devMotionSub = FALSE,
                             !.pedSub = FALSE, !.wifiTimer = FALSE]]

\* The subscription effect runs: start() goes up to its first await.
subscribe(effs, wifi) ==
    LET i == CHOOSE j \in DOMAIN effs :
                 effs[j].pc = "none" /\ \A h \in DOMAIN effs : effs[h].pc = "none" => j <= h
    IN  [effs EXCEPT ![i] = [NoEffect EXCEPT !.pc = "avail", !.wifi = wifi]]

\* scanWifiNow up to its await: one more scan in flight, begun now.
beginScan(ss) ==
    [begun |-> ss.begun + 1,
     inFlight |-> ss.inFlight \cup
                  {[n |-> CHOOSE n \in 1..(Cardinality(ss.inFlight) + 1) :
                            \A s \in ss.inFlight : s.n # n,
                    at |-> now, stopped |-> FALSE]}]

\* The model lets at most MaxInFlight scans wait at a time and budget scans begin.
MaxInFlight == 2
CanScan(budget) == scans.begun < budget /\ Cardinality(scans.inFlight) < MaxInFlight

\* The end of start(): the interval timer and the first scan.
finishStart(eff) ==
    IF eff.wifi THEN [eff EXCEPT !.pc = "done", !.wifiTimer = TRUE, !.due = now + WifiScanIntervalMs]
    ELSE [eff EXCEPT !.pc = "done"]

\* Inputs
PosStart == Pt(200, 0)
Availabilities == {[dev |-> TRUE, mag |-> TRUE, ped |-> TRUE],
                   [dev |-> TRUE, mag |-> TRUE, ped |-> FALSE]}
\* what scanWifi and computeWifiFix make of the readings: no fix, a weak fix
\* nearby, a strong fix more than 10 m away
WeakFix == [x |-> 200, y |-> 100, matched |-> 1, bestLevel |-> -80]
StrongFix == [x |-> 1400, y |-> 0, matched |-> 2, bestLevel |-> -50]
Rise == [high |-> TRUE, belowMean |-> FALSE, low |-> FALSE, peakOver |-> 100,
         yaw |-> NoYaw]
Fall == [high |-> FALSE, belowMean |-> TRUE, low |-> FALSE, peakOver |-> 100,
         yaw |-> NoYaw]
Rest == [high |-> FALSE, belowMean |-> TRUE, low |-> TRUE, peakOver |-> -5,
         yaw |-> NoYaw]
\* the phone held still and pointing a quarter turn off the start heading
Turn == [high |-> FALSE, belowMean |-> TRUE, low |-> FALSE, peakOver |-> -5,
         yaw |-> 90]
DeviceSamples == {Rise, Fall, Rest}
PedIncrements == {1, 2}
MaxPedCount == 4
MaxEffects == 2

PosCommit(ps) ==
    /\ engineRef' = ps.engineRef
    /\ prevEdgeRef' = ps.prevEdgeRef
    /\ kalmanRef' = ps.kalmanRef
    /\ headingSmoothedRef' = ps.headingSmoothedRef
    /\ rawPosRef' = ps.rawPosRef
    /\ state' = ps.state
    /\ posLog' = ps.log

\* The hook after its first render and effects, for the given args.
PosInit ==
    /\ enabled = FALSE
    /\ wifiEnabled = TRUE
    /\ start = PosStart
    /\ engineRef = NewEngine
    /\ prevEdgeRef = NoEdge
    /\ kalmanRef = createKalman2D(PosStart, 250)
    /\ headingSmoothedRef = 0
    /\ rawPosRef = PosStart
    /\ state = [pose |-> NoPose, path |-> <<PosStart>>, steps |-> 0,
                wifi |-> [enabled |-> TRUE]]
    /\ scans = [begun |-> 0, inFlight |-> {}]
    /\ effects = [i \in 1..MaxEffects |-> NoEffect]
    /\ posLog = [resetDone |-> FALSE, lastDeviceStepAt |-> 0, kind |-> "init", at |-> 0,
                 emitted |-> FALSE, count |-> 0, increase |-> 0, stopped |-> FALSE,
                 applied |-> FALSE, lenBefore |-> 0, p |-> PosStart,
                 lastStepEventAt |-> 0, stepBefore |-> 0,
                 offHeading |-> 0, justOff |-> FALSE]

\* args.enabled changes: the cleanup of the subscription effect, then the enable
\* effect and the subscription effect.
PosSetEnabled ==
    /\ enabled' = ~enabled
    /\ UNCHANGED <<wifiEnabled, start>>
    /\ \E effs \in {cleanup(effects)} :
         IF enabled'
         THEN /\ \E j \in DOMAIN effs : effs[j].pc = "none"
              /\ effects' = subscribe(effs, wifiEnabled)
              /\ PosCommit(resetTo(start, wifiEnabled, PosEffects))
              /\ scans' = scans
         ELSE /\ effects' = effs
              /\ PosCommit(PosEffects)
              /\ scans' = [scans EXCEPT !.inFlight = {[s EXCEPT !.stopped = TRUE] : s \in @}]
    /\ UNCHANGED <<now, routeVars, fnVars, navVars>>

\* The application turns Wi-Fi corrections on or off, so args.wifiEnabled
\* changes: the wifiEnabled effect, the subscription effect again since
\* wifiEnabled and scanWifiNow are among its dependencies, and, resetTo being
\* created anew, the application's effect that calls resetTo(getStartCoord())
\* while positioning is active.
PosSetWifiEnabled ==
    /\ wifiEnabled' = ~wifiEnabled
    /\ UNCHANGED <<enabled, start, scans>>
    /\ \E ps \in {wifiEnabledEffect(wifiEnabled',
                                   [PosState("wifiEnabled") EXCEPT
                                      !.log.offHeading = IF wifiEnabled THEN engineRef.headingDeg
                                                         ELSE posLog.offHeading,
                                      !.log.justOff = (~wifiEnabled /\ posLog.kind = "wifiEnabled")])} :
         PosCommit(IF enabled THEN resetTo(start, wifiEnabled', ps) ELSE ps)
    /\ IF enabled
       THEN \E effs \in {cleanup(effects)} :
              /\ \E j \in DOMAIN effs : effs[j].pc = "none"
              /\ effects' = subscribe(effs, wifiEnabled')
       ELSE UNCHANGED effects
    /\ UNCHANGED <<now, routeVars, fnVars, navVars>>

\* start() of run i after Promise.all: the only test of cancelled, the
\* magnetometer and device-motion listeners, and without a pedometer the timer.
PosAvailable(i, avail, budget) ==
    /\ effects[i].pc = "avail"
    /\ IF effects[i].cancelled
       THEN effects' = [effects EXCEPT ![i] = NoEffect] /\ scans' = scans
       ELSE \E e1 \in {[effects[i] EXCEPT !.magSub = avail.mag, !.devMotionSub = avail.dev]} :
              IF avail.ped
              THEN effects' = [effects EXCEPT ![i] = [e1 EXCEPT !.pc = "perm"]] /\ scans' = scans
              ELSE /\ e1.wifi => CanScan(budget)
                   /\ effects' = [effects EXCEPT ![i] = finishStart(e1)]
                   /\ scans' = IF e1.wifi THEN beginScan(scans) ELSE scans
    /\ UNCHANGED <<now, routeVars, fnVars, navVars, enabled, wifiEnabled, start, engineRef, prevEdgeRef,
                   kalmanRef, headingSmoothedRef, rawPosRef, state, posLog>>

\* start() of run i after the first Pedometer.getPermissionsAsync()
PosPermission(i, ask) ==
    /\ effects[i].pc = "perm"
    /\ effects' = [effects EXCEPT ![i].pc = IF ask THEN "request" ELSE "perm2"]
    /\ UNCHANGED <<now, routeVars, fnVars, navVars, enabled, wifiEnabled, start, engineRef, prevEdgeRef,
                   kalmanRef, headingSmoothedRef, rawPosRef, state, posLog, scans>>

\* ... after Pedometer.requestPermissionsAsync()
PosPermissionAsked(i) ==
    /\ effects[i].pc = "request"
    /\ effects' = [effects EXCEPT ![i].pc = "perm2"]
    /\ UNCHANGED <<now, routeVars, fnVars, navVars, enabled, wifiEnabled, start, engineRef, prevEdgeRef,
                   kalmanRef, headingSmoothedRef, rawPosRef, state, posLog, scans>>

\* ... after the second getPermissionsAsync(): the pedometer listener, the
\* interval timer and the first scan.
PosWatchStepCount(i, budget) ==
    /\ effects[i].pc = "perm2"
    /\ effects[i].wifi => CanScan(budget)
    /\ effects' = [effects EXCEPT ![i] = finishStart([effects[i] EXCEPT !.pedSub = TRUE])]
    /\ scans' = IF effects[i].wifi THEN beginScan(scans) ELSE scans
    /\ UNCHANGED <<now, routeVars, fnVars, navVars, enabled, wifiEnabled, start, engineRef, prevEdgeRef,
                   kalmanRef, headingSmoothedRef, rawPosRef, state, posLog>>

\* actions.scanWifiNow() of the latest render, up to its await
PosScanWifiNow(budget) ==
    /\ wifiEnabled
    /\ CanScan(budget)
    /\ scans' = beginScan(scans)
    /\ UNCHANGED <<now, routeVars, fnVars, navVars, enabled, wifiEnabled, start, engineRef, prevEdgeRef,
                   kalmanRef, headingSmoothedRef, rawPosRef, state, posLog, effects>>

\* The interval timer of run i calls the scanWifiNow of its render.
PosWifiTimer(i, budget) ==
    /\ effects[i].wifiTimer
    /\ now >= effects[i].due
    /\ CanScan(budget)
    /\ scans' = beginScan(scans)
    /\ effects' = [effects EXCEPT ![i].due = effects[i].due + WifiScanIntervalMs]
    /\ UNCHANGED <<now, routeVars, fnVars, navVars, enabled, wifiEnabled, start, engineRef, prevEdgeRef,
                   kalmanRef, headingSmoothedRef, rawPosRef, state, posLog>>

\* scanWifi() of scan s resolves.
PosScanDone(s, fix) ==
    /\ s \in scans.inFlight
    /\ scans' = [scans EXCEPT !.inFlight = @ \ {s}]
    /\ PosCommit(scanWifiDone(s.at, fix,
                              [PosState("scan") EXCEPT !.log.stopped = (s.stopped /\ ~enabled)]))
    /\ UNCHANGED <<now, routeVars, fnVars, navVars, enabled, wifiEnabled, start, effects>>

\* The device-motion listener of run i
PosDeviceMotion(i, sample) ==
    /\ effects[i].devMotionSub
    /\ \E r \in {handleDeviceMotion(engineRef, sample, now)} :
         \E ps \in {[PosState("deviceMotion") EXCEPT !.engineRef = r.engine]} :
           PosCommit(IF r.step
                     THEN onStep("deviceMotion", r.engine.stepLengthMeters, now, 1, ps)
                     ELSE ps)
    /\ UNCHANGED <<now, routeVars, fnVars, navVars, enabled, wifiEnabled, start, effects, scans>>

\* The pedometer listener of run i: the subscription's count grows by inc.
PosPedometer(i, inc) ==
    /\ effects[i].pedSub
    /\ effects[i].steps + inc <= MaxPedCount
    /\ effects' = [effects EXCEPT ![i].steps = effects[i].steps + inc]
    /\ \E r \in {handlePedometerSteps(engineRef, effects[i].steps + inc, now,
                                      recentlyDeviceMotion(engineRef, now))} :
         \E ps \in {[PosState("pedometer") EXCEPT
                       !.engineRef = r.engine,
                       !.log.increase = IF engineRef.pedometerSteps = 0 THEN 0
                                        ELSE effects[i].steps + inc - engineRef.pedometerSteps]} :
           PosCommit(IF r.step
                     THEN onStep("pedometer", r.engine.stepLengthMeters, now, r.count, ps)
                     ELSE ps)
    /\ UNCHANGED <<now, routeVars, fnVars, navVars, enabled, wifiEnabled, start, scans>>

\* actions.resetTo(p), called by the application when the user re-centres
PosResetTo(p) ==
    /\ PosCommit(resetTo(p, wifiEnabled, [PosState("reset") EXCEPT !.log.p = p]))
    /\ UNCHANGED <<now, routeVars, fnVars, navVars, enabled, wifiEnabled, start, effects, scans>>

\* actions.setWifiEnabled(b), called by the user of the hook
PosActionSetWifiEnabled(b) ==
    /\ PosCommit(setWifiEnabled(b, PosState("setWifiEnabled")))
    /\ UNCHANGED <<now, routeVars, fnVars, navVars, enabled, wifiEnabled, start, effects, scans>>

PosTick(k, maxTicks) ==
    /\ now + k * TickMs <= Epoch + maxTicks * TickMs
    /\ now' = now + k * TickMs
    /\ UNCHANGED <<routeVars, fnVars, navVars, posVars>>

(***************************************************************************)
(* useIndoorNavigation.ts                                                  *)
(***************************************************************************)
NoPoint == Pt(-1, -1)
RerouteMinGapMs == 1500
NextAheadMeters == 50
\* args.reroute as the application passes it
OffRouteMeters == 220
PersistMs == 3000

NavMap == MapCorridor
NavPoints == {Pt(200, 0), Pt(100, 300)}
NavDestinations == {"w3", "p1"}

\* st = [route, offRoute, offRouteSinceRef, lastRecalcAtRef, changed, log]:
\* the hook's state and refs while the effects of one commit run.  changed says
\* that a state setter was given a new value.  log is history:
\*   prev, last  the times of the last two recalc runs that stored a route since
\*               enabled / destination last changed (0 = none);
\*   of the last commit: at, its time; runs, its recalc runs that stored a route;
\*               triggers, the recalc calls of its off-route branch; wasOff, its
\*               progress effect found the position off the route; armedAt,
\*               before, refBefore: offRouteSinceRef, last and lastRecalcAtRef
\*               as they were before it; kind, what caused it;
\*   steady      enabled and the destination have not changed since the off-route
\*               timer was last armed.
\* nextManeuver, distanceToNext and nextInstruction are outputs that no effect
\* reads; they are not part of the state here.
NavState(kind) ==
    [route |-> route, offRoute |-> offRoute, offRouteSinceRef |-> offRouteSinceRef,
     lastRecalcAtRef |-> lastRecalcAtRef, changed |-> FALSE,
     log |-> [navLog EXCEPT !.runs = 0, !.triggers = 0, !.armedAt = offRouteSinceRef,
                            !.wasOff = FALSE, !.at = now, !.before = navLog.last,
                            !.refBefore = lastRecalcAtRef, !.kind = kind]]

\* enabled or the destination changes: the recalc runs before it are history
\* of another period.
NewPeriod(st) ==
    [st EXCEPT !.log.prev = 0, !.log.last = 0, !.log.before = 0, !.log.steady = FALSE]

\* recalc as closed over the render's current and destinationId
recalc(cur, dest, st) ==
    IF cur = NoPoint \/ dest = NoId THEN st
    ELSE LET store(res) ==
                 IF ~res.ok THEN st
                 ELSE [st EXCEPT !.route = res, !.changed = TRUE,
                                 !.log.prev = st.log.last, !.log.last = now,
                                 !.log.runs = st.log.runs + 1]
         IN  CHOOSE r \in {store(res) : res \in {shortestPathFromPoint(NavMap, cur, dest)}} : TRUE

\* The effect on [enabled, destinationId, map, recalc]
recalcEffect(st) ==
    IF ~navEnabled'
    THEN [st EXCEPT !.route = NoPath, !.offRoute = FALSE, !.offRouteSinceRef = 0,
                    !.changed = (st.changed \/ st.route # NoPath \/ st.offRoute)]
    ELSE recalc(current', destinationId', st)

\* The off-route part of the progress effect, with the render's route and
\* offRoute (closedRoute, closedOffRoute) and the refs as they are now.
offRouteStep(isOff, closedOffRoute, st) ==
    IF ~isOff
    THEN [st EXCEPT !.offRouteSinceRef = 0,
                    !.offRoute = IF closedOffRoute THEN FALSE ELSE st.offRoute,
                    !.changed = (st.changed \/ (closedOffRoute /\ st.offRoute))]
    ELSE LET since == IF st.offRouteSinceRef = 0 THEN now ELSE st.offRouteSinceRef
             persist == now - since
             should == persist > PersistMs
             armed == [st EXCEPT !.offRouteSinceRef = since, !.offRoute = TRUE,
                                 !.changed = (st.changed \/ ~st.offRoute),
                                 !.log.wasOff = TRUE,
                                 !.log.steady = (st.offRouteSinceRef = 0 \/ st.log.steady)]
         IN  IF ~should THEN armed
             ELSE IF now - st.lastRecalcAtRef < RerouteMinGapMs THEN armed
             ELSE [recalc(current', destinationId',
                          [armed EXCEPT !.lastRecalcAtRef = now,
                                        !.log.triggers = armed.log.triggers + 1])
                     EXCEPT !.offRouteSinceRef = 0]

\* The effect on [offRouteMeters, persistMs, current, enabled, offRoute, recalc, route]
progressEffect(closedRoute, closedOffRoute, st) ==
    IF ~navEnabled' \/ current' = NoPoint \/ closedRoute = NoPath THEN st
    ELSE LET go(progress) ==
                 IF ~progress.found THEN st
                 ELSE offRouteStep(progress.distanceMeters > OffRouteMeters, closedOffRoute, st)
         IN  CHOOSE r \in {go(pg) : pg \in {computeRouteProgress(closedRoute.points, current')}} : TRUE

\* progress.alongMeters of computeRouteProgress: the length of the route up to
\* the closest projection.
alongMeters(polyline, progress) ==
    LET i == progress.segmentIndex + 1
    IN  polyLength(SubSeq(polyline, 1, i), 2)
        + (dist(polyline[i], polyline[i + 1]) * progress.t.num) \div progress.t.den

\* route.maneuvers.find(m => m.distanceFromStartMeters > along + 0.5) ?? null
RECURSIVE findManeuverAhead(_, _, _)
findManeuverAhead(maneuvers, i, along) ==
    IF i > Len(maneuvers) THEN NoManeuver
    ELSE IF maneuvers[i].distanceFromStartMeters > along + NextAheadMeters THEN maneuvers[i]
    ELSE findManeuverAhead(maneuvers, i + 1, along)

\* The outputs of the progress effect for a stored route (its points and
\* maneuvers) and a position: computed is FALSE when it returns before
\* setting them.
NoGuidance ==
    [computed |-> FALSE, alongMeters |-> 0, nextManeuver |-> NoManeuver,
     distanceToNext |-> NoDistance, nextInstruction |-> "Select a destination"]

guidance(points, maneuvers, cur) ==
    LET out(along, next) ==
            LET total == polyLength(points, 2)
                remaining == IF total - along < 0 THEN 0 ELSE total - along
                ahead == next.distanceFromStartMeters - along
                distToNext == IF next # NoManeuver THEN (IF ahead < 0 THEN 0 ELSE ahead)
                              ELSE remaining
            IN  [computed |-> TRUE, alongMeters |-> along, nextManeuver |-> next,
                 distanceToNext |-> distToNext,
                 nextInstruction |-> formatNextInstruction(next, distToNext)]
        go(progress) ==
            IF ~progress.found THEN NoGuidance
            ELSE CHOOSE r \in
                   {out(along, findManeuverAhead(maneuvers, 1, along)) :
                      along \in {alongMeters(points, progress)}} : TRUE
    IN  CHOOSE r \in {go(pg) : pg \in {computeRouteProgress(points, cur)}} : TRUE

\* One commit: the props of the render are the primed args; both effects read the
\* state of the render (route, offRoute) and run in the order they are declared.
NavCommit(runRecalcEffect, st0) ==
    \E st \in {progressEffect(route, offRoute, s1) :
                 s1 \in {IF runRecalcEffect THEN recalcEffect(st0) ELSE st0}} :
        /\ route' = st.route
        /\ offRoute' = st.offRoute
        /\ offRouteSinceRef' = st.offRouteSinceRef
        /\ lastRecalcAtRef' = st.lastRecalcAtRef
        /\ navDirty' = st.changed
        /\ navLog' = st.log

NavInit ==
    /\ navEnabled = FALSE
    /\ destinationId = NoId
    /\ current = NoPoint
    /\ route = NoPath
    /\ offRoute = FALSE
    /\ offRouteSinceRef = 0
    /\ lastRecalcAtRef = 0
    /\ navDirty = FALSE
    /\ navLog = [prev |-> 0, last |-> 0, runs |-> 0, triggers |-> 0, armedAt |-> 0,
                 wasOff |-> FALSE, at |-> 0, before |-> 0, refBefore |-> 0,
                 kind |-> "init", steady |-> FALSE]

\* args.enabled changes: both effects have it among their dependencies.
NavSetEnabled ==
    /\ navEnabled' = ~navEnabled
    /\ UNCHANGED <<destinationId, current>>
    /\ NavCommit(TRUE, NewPeriod(NavState("enabled")))
    /\ UNCHANGED <<now, routeVars, fnVars, posVars>>

\* args.destinationId changes: recalc is a new function, so both effects run.
NavSetDestination(d) ==
    /\ d # destinationId
    /\ destinationId' = d
    /\ UNCHANGED <<navEnabled, current>>
    /\ NavCommit(TRUE, NewPeriod(NavState("destination")))
    /\ UNCHANGED <<now, routeVars, fnVars, posVars>>

\* A position update: args.current is a new object, so recalc is a new function
\* and both effects run.  The application builds current anew in every render,
\* which is a position update to the same coordinates.
NavPositionUpdate(p) ==
    /\ current' = p
    /\ UNCHANGED <<navEnabled, destinationId>>
    /\ NavCommit(TRUE, NavState("position"))
    /\ UNCHANGED <<now, routeVars, fnVars, posVars>>

\* The re-render after setRoute / setOffRoute with args.current the same object:
\* of the two effects only the progress effect has route and offRoute among its
\* dependencies.
NavRerender ==
    /\ navDirty
    /\ UNCHANGED <<navEnabled, destinationId, current>>
    /\ NavCommit(FALSE, NavState("render"))
    /\ UNCHANGED <<now, routeVars, fnVars, posVars>>

NavTick(k) ==
    /\ now + k * TickMs <= Epoch + MaxTicks * TickMs
    /\ now' = now + k * TickMs
    /\ UNCHANGED <<routeVars, fnVars, navVars, posVars>>

\* shortestPathFromPoint not called on its own
\* No pure function is being applied.
FnIdle == fnArgs = <<>> /\ fnResult = <<>> /\ fnPc = "idle"

RouteIdle == rMap = 1 /\ rStart = Pt(200, 0) /\ rEnd = "w3" /\ rResult = NoPath /\ rPc = "call"

InitNav == NavInit /\ PosInit /\ RouteIdle /\ FnIdle /\ now = Epoch

NextNav ==
    \/ NavSetEnabled
    \/ \E d \in NavDestinations \cup {NoId} : NavSetDestination(d)
    \/ \E p \in NavPoints : NavPositionUpdate(p)
    \/ NavRerender
    \/ \E k \in TickSteps : NavTick(k)

SpecNav == InitNav /\ [][NextNav]_vars

(***************************************************************************)
(* shortestPathFromPoint applied to every drawn input.                     *)
(***************************************************************************)
RouteInit ==
    /\ rMap \in 1..Len(Maps)
    /\ rStart \in StartPoints
    /\ rEnd \in EndIds
    /\ rResult = NoPath
    /\ rPc = "call"

RouteCall ==
    /\ rPc = "call"
    /\ rResult' = shortestPathFromPoint(Maps[rMap], rStart, rEnd)
    /\ rPc' = "done"
    /\ UNCHANGED <<rMap, rStart, rEnd, now, fnVars, navVars, posVars>>

InitRoute == RouteInit /\ FnIdle /\ NavInit /\ PosInit /\ now = Epoch
NextRoute == RouteCall
SpecRoute == InitRoute /\ [][NextRoute]_vars

(***************************************************************************)
(* A positioning session from construction: enabling and disabling, the    *)
(* asynchronous start of the subscriptions, Wi-Fi scans and the timer.     *)
(***************************************************************************)
MaxSessionTicks == 11
SessionTickSteps == {11}
MaxSessionScans == 2

InitSession == PosInit /\ NavInit /\ RouteIdle /\ FnIdle /\ now = Epoch

NextSession ==
    \/ PosSetEnabled
    \/ \E i \in 1..MaxEffects : \E avail \in Availabilities :
          PosAvailable(i, avail, MaxSessionScans)
    \/ \E i \in 1..MaxEffects : \E ask \in BOOLEAN : PosPermission(i, ask)
    \/ \E i \in 1..MaxEffects : PosPermissionAsked(i)
    \/ \E i \in 1..MaxEffects : PosWatchStepCount(i, MaxSessionScans)
    \/ PosScanWifiNow(MaxSessionScans)
    \/ \E i \in 1..MaxEffects : PosWifiTimer(i, MaxSessionScans)
    \/ \E s \in scans.inFlight : \E fix \in {NoFix, WeakFix} : PosScanDone(s, fix)
    \/ \E k \in SessionTickSteps : PosTick(k, MaxSessionTicks)

SpecSession == InitSession /\ [][NextSession]_vars

(***************************************************************************)
(* A running session: enabled at Epoch, start() finished with every sensor *)
(* available and, with Wi-Fi, its first scan back without a fix.           *)
(***************************************************************************)
Running(wifi) ==
    /\ enabled = TRUE
    /\ wifiEnabled = wifi
    /\ start = PosStart
    /\ engineRef = NewEngine
    /\ prevEdgeRef = NoEdge
    /\ kalmanRef = IF wifi THEN createKalman2D(PosStart, 150) ELSE NoKalman
    /\ headingSmoothedRef = 0
    /\ rawPosRef = PosStart
    /\ state = [pose |-> [x |-> PosStart.x, y |-> PosStart.y, headingDeg |-> 0, ts |-> Epoch,
                          source |-> IF wifi THEN "pdr_wifi" ELSE "pdr", snapped |-> FALSE],
                path |-> <<PosStart>>, steps |-> 0, wifi |-> [enabled |-> wifi]]
    /\ scans = [begun |-> IF wifi THEN 1 ELSE 0, inFlight |-> {}]
    /\ effects = [i \in 1..MaxEffects |->
                    IF i = 1
                    THEN [pc |-> "done", cancelled |-> FALSE, magSub |-> TRUE,
                          devMotionSub |-> TRUE, pedSub |-> TRUE, wifiTimer |-> wifi,
                          due |-> IF wifi THEN Epoch + WifiScanIntervalMs ELSE 0,
                          steps |-> 0, wifi |-> wifi]
                    ELSE NoEffect]
    /\ posLog = [resetDone |-> TRUE, lastDeviceStepAt |-> 0,
                 kind |-> IF wifi THEN "scan" ELSE "init", at |-> IF wifi THEN Epoch ELSE 0,
                 emitted |-> FALSE, count |-> 0, increase |-> 0, stopped |-> FALSE,
                 applied |-> FALSE, lenBefore |-> IF wifi THEN 1 ELSE 0, p |-> PosStart,
                 lastStepEventAt |-> 0, stepBefore |-> 0,
                 offHeading |-> 0, justOff |-> FALSE]

\* Walking without Wi-Fi: device-motion samples and pedometer counts as time passes.
MaxWalkTicks == 6
WalkTickSteps == {1, 5}

InitWalk == Running(FALSE) /\ NavInit /\ RouteIdle /\ FnIdle /\ now = Epoch

NextWalk ==
    \/ \E sample \in DeviceSamples : PosDeviceMotion(1, sample)
    \/ \E inc \in PedIncrements : PosPedometer(1, inc)
    \/ \E k \in WalkTickSteps : PosTick(k, MaxWalkTicks)

SpecWalk == InitWalk /\ [][NextWalk]_vars

\* Walking with Wi-Fi: pedometer counts and scans as time passes.
MaxFusionTicks == 3
MaxFusionScans == 3

InitFusion == Running(TRUE) /\ NavInit /\ RouteIdle /\ FnIdle /\ now = Epoch

NextFusion ==
    \/ \E inc \in PedIncrements : PosPedometer(1, inc)
    \/ PosScanWifiNow(MaxFusionScans)
    \/ \E s \in scans.inFlight : \E fix \in {NoFix, WeakFix, StrongFix} : PosScanDone(s, fix)
    \/ PosTick(1, MaxFusionTicks)

SpecFusion == InitFusion /\ [][NextFusion]_vars

\* Scan after scan, each with a fix, until the path buffer has been full for a
\* while; on the full buffer also pedometer steps and a resetTo.
MaxBufScans == 250

InitBuf == Running(TRUE) /\ NavInit /\ RouteIdle /\ FnIdle /\ now = Epoch

NextBuf ==
    \/ PosScanWifiNow(MaxBufScans)
    \/ \E s \in scans.inFlight : PosScanDone(s, WeakFix)
    \/ Len(state.path) = PathLimit /\ PosPedometer(1, 1)
    \/ Len(state.path) = PathLimit /\ PosResetTo(PosStart)

SpecBuf == InitBuf /\ [][NextBuf]_vars

(***************************************************************************)
(* resetTo from the states a running session gets into by pedometer steps  *)
(* and Wi-Fi fixes, with and without Wi-Fi.                                *)
(***************************************************************************)
MaxResetScans == 3
ResetPoints == {PosStart, Pt(400, 150)}

InitReset == (Running(TRUE) \/ Running(FALSE)) /\ NavInit /\ RouteIdle /\ FnIdle /\ now = Epoch

NextReset ==
    \/ \E inc \in PedIncrements : PosPedometer(1, inc)
    \/ PosScanWifiNow(MaxResetScans)
    \/ \E s \in scans.inFlight : \E fix \in {WeakFix, StrongFix} : PosScanDone(s, fix)
    \/ \E p \in ResetPoints : PosResetTo(p)

SpecReset == InitReset /\ [][NextReset]_vars

(***************************************************************************)
(* actions.setWifiEnabled in a session running with Wi-Fi, among pedometer *)
(* steps and Wi-Fi scans.                                                  *)
(***************************************************************************)
MaxSwitchScans == 2

InitSwitch == Running(TRUE) /\ NavInit /\ RouteIdle /\ FnIdle /\ now = Epoch

NextSwitch ==
    \/ \E inc \in PedIncrements : PosPedometer(1, inc)
    \/ PosScanWifiNow(MaxSwitchScans)
    \/ \E s \in scans.inFlight : \E fix \in {WeakFix, StrongFix} : PosScanDone(s, fix)
    \/ \E b \in BOOLEAN : PosActionSetWifiEnabled(b)

SpecSwitch == InitSwitch /\ [][NextSwitch]_vars

(***************************************************************************)
(* The application's Wi-Fi corrections switch in a session running with    *)
(* Wi-Fi, while the phone turns and Wi-Fi scans come and go.               *)
(***************************************************************************)
MaxToggleScans == 3

InitToggle == Running(TRUE) /\ NavInit /\ RouteIdle /\ FnIdle /\ now = Epoch

NextToggle ==
    \/ PosSetWifiEnabled
    \/ \E i \in 1..MaxEffects : PosDeviceMotion(i, Turn)
    \/ \E i \in 1..MaxEffects : PosAvailable(i, [dev |-> TRUE, mag |-> TRUE, ped |-> FALSE],
                                              MaxToggleScans)
    \/ PosScanWifiNow(MaxToggleScans)
    \/ \E s \in scans.inFlight : \E fix \in {NoFix, WeakFix} : PosScanDone(s, fix)

SpecToggle == InitToggle /\ [][NextToggle]_vars

(***************************************************************************)
(* The guidance of the progress effect for the routes recalc stores from   *)
(* drawn starts to drawn destinations, at drawn positions.                 *)
(***************************************************************************)
GuideStarts == {Pt(200, 0), Pt(0, 0), Pt(400, 100), Pt(400, 280), Pt(100, 100)}
GuideDestinations == {"w1", "w2", "w3"}
GuidePoints == {Pt(200, 0), Pt(300, 0), Pt(400, 0), Pt(400, 100), Pt(400, 270), Pt(400, 300),
                Pt(300, 100), Pt(0, 0), Pt(40, 0)}

GuideInit ==
    /\ fnArgs \in [start : GuideStarts, destinationId : GuideDestinations, current : GuidePoints]
    /\ fnResult = <<>>
    /\ fnPc = "call"

\* recalc from start, then the progress effect of the render that has the
\* route, at current.
GuideCall ==
    /\ fnPc = "call"
    /\ \E res \in {shortestPathFromPoint(NavMap, fnArgs.start, fnArgs.destinationId)} :
         /\ res.ok
         /\ \E ms \in {buildManeuvers(res.points)} :
              fnResult' = [route |-> res, maneuvers |-> ms,
                           out |-> guidance(res.points, ms, fnArgs.current)]
    /\ fnPc' = "guidance"
    /\ UNCHANGED <<fnArgs, now, routeVars, navVars, posVars>>

InitGuide == GuideInit /\ RouteIdle /\ NavInit /\ PosInit /\ now = Epoch
NextGuide == GuideCall
SpecGuide == InitGuide /\ [][NextGuide]_vars

(***************************************************************************)
(* The completion of a Wi-Fi scan applied to drawn Kalman states and fixes.*)
(***************************************************************************)
FixCentres == {Pt(200, 0), Pt(400, 0), Pt(1400, 0)}
FixSigmas == {150, 250}
FixKalmans == {NoKalman} \cup {createKalman2D(c, s) : c \in FixCentres, s \in FixSigmas}
FixPoints == {Pt(1400, 0), Pt(200, 100), Pt(1200, 0), Pt(1201, 0)}
FixLevels == {<<1, -95>>, <<1, -80>>, <<1, -59>>, <<1, -58>>, <<2, -59>>, <<4, -40>>}
Fixes == {[x |-> q.x, y |-> q.y, matched |-> l[1], bestLevel |-> l[2]] :
            q \in FixPoints, l \in FixLevels}

FixInit ==
    /\ fnArgs \in [kalmanRef : FixKalmans, fix : Fixes]
    /\ fnResult = <<>>
    /\ fnPc = "call"

FixCall ==
    /\ fnPc = "call"
    /\ \E r \in {scanWifiDone(now, fnArgs.fix,
                               [PosState("scan") EXCEPT !.kalmanRef = fnArgs.kalmanRef])} :
         fnResult' = [kalmanRef |-> r.kalmanRef, pose |-> r.state.pose]
    /\ fnPc' = "scanWifiNow"
    /\ UNCHANGED <<fnArgs, now, routeVars, navVars, posVars>>

InitFix == FixInit /\ RouteIdle /\ NavInit /\ Running(TRUE) /\ now = Epoch
NextFix == FixCall
SpecFix == InitFix /\ [][NextFix]_vars

(***************************************************************************)
(* The step detector: device-motion samples, pedometer counts and resetTo  *)
(* as time passes in steps shorter than the minimum step interval.         *)
(***************************************************************************)
DetectTickMs == 140
MaxDetectTicks == 6

DetectTick ==
    /\ now + DetectTickMs <= Epoch + MaxDetectTicks * DetectTickMs
    /\ now' = now + DetectTickMs
    /\ UNCHANGED <<routeVars, fnVars, navVars, posVars>>

InitDetect == Running(FALSE) /\ NavInit /\ RouteIdle /\ FnIdle /\ now = Epoch

NextDetect ==
    \/ \E sample \in DeviceSamples : PosDeviceMotion(1, sample)
    \/ \E inc \in PedIncrements : PosPedometer(1, inc)
    \/ PosResetTo(PosStart)
    \/ DetectTick

SpecDetect == InitDetect /\ [][NextDetect]_vars

(***************************************************************************)
(* snapToGraph applied to drawn maps, points and options.                  *)
(***************************************************************************)
\* Two parallel corridors E1 = a1-a2 and E2 = b1-b2 40 cm apart, E3 = a2-c
\* joined to E1, a one-way edge b2 -> d without a distance (not usable) and an
\* edge to an unknown node.
MapParallel ==
    [nodes |-> <<Node("a1", 0, 0), Node("a2", 1000, 0), Node("b1", 0, 40),
                 Node("b2", 1000, 40), Node("c", 1000, -300), Node("d", 1000, 300)>>,
     edges |-> <<Edge("a1", "a2", NoDistance, TRUE), Edge("b1", "b2", NoDistance, TRUE),
                 Edge("a2", "c", NoDistance, TRUE), Edge("b2", "d", NoDistance, FALSE),
                 Edge("a1", "ghost", NoDistance, TRUE)>>]

SnapMaps == <<MapParallel, MapCorridor>>
SnapPoints == {Pt(500, 25), Pt(500, 400), Pt(0, 30), Pt(1000, 200), Pt(1000, -100), Pt(500, 15)}
SnapPrevs == {NoEdge, [from |-> "a1", to |-> "a2"], [from |-> "a2", to |-> "a1"],
              [from |-> "b1", to |-> "b2"], [from |-> "a2", to |-> "c"]}
SnapPenalties == {0, 35, 125}
SnapLimits == {50, 175}

SnapInit ==
    /\ fnArgs \in [map : 1..Len(SnapMaps), point : SnapPoints, previousEdge : SnapPrevs,
                    switchPenaltyMeters : SnapPenalties, hardClamp : BOOLEAN,
                    maxSnapMeters : SnapLimits]
    /\ fnResult = <<>>
    /\ fnPc = "call"

SnapCall ==
    /\ fnPc = "call"
    /\ fnResult' = snapToGraph(SnapMaps[fnArgs.map], fnArgs.point,
                               [maxSnapMeters |-> fnArgs.maxSnapMeters,
                                previousEdge |-> fnArgs.previousEdge,
                                switchPenaltyMeters |-> fnArgs.switchPenaltyMeters,
                                hardClamp |-> fnArgs.hardClamp])
    /\ fnPc' = "snapToGraph"
    /\ UNCHANGED <<fnArgs, now, routeVars, navVars, posVars>>

InitSnap == SnapInit /\ RouteIdle /\ NavInit /\ PosInit /\ now = Epoch
NextSnap == SnapCall
SpecSnap == InitSnap /\ [][NextSnap]_vars

(***************************************************************************)
(* buildManeuvers applied to polylines of up to MaxPolyline points that    *)
(* start at the origin and go on by the steps of PolySteps.                *)
(***************************************************************************)
MaxPolyline == 4
PolySteps ==
    {Pt(0, 0), Pt(0, -100), Pt(100, -200), Pt(80, -150), Pt(100, -100), Pt(100, 0),
     Pt(100, 100), Pt(0, 100), Pt(-100, 100), Pt(-100, 0), Pt(-100, -100)}

RECURSIVE Polylines(_)
Polylines(n) ==
    IF n = 0 THEN {<<>>}
    ELSE IF n = 1 THEN {<<Pt(0, 0)>>}
    ELSE {Append(pl, Pt(pl[n - 1].x + d.x, pl[n - 1].y + d.y)) :
            pl \in Polylines(n - 1), d \in PolySteps}

ManeuversInit ==
    /\ fnArgs \in UNION {Polylines(n) : n \in 0..MaxPolyline}
    /\ fnResult = <<>>
    /\ fnPc = "call"

ManeuversCall ==
    /\ fnPc = "call"
    /\ fnResult' = buildManeuvers(fnArgs)
    /\ fnPc' = "buildManeuvers"
    /\ UNCHANGED <<fnArgs, now, routeVars, navVars, posVars>>

InitManeuvers == ManeuversInit /\ RouteIdle /\ NavInit /\ PosInit /\ now = Epoch
NextManeuvers == ManeuversCall
SpecManeuvers == InitManeuvers /\ [][NextManeuvers]_vars

(***************************************************************************)
(* formatNextInstruction applied to the maneuvers buildManeuvers writes    *)
(* and to distances of up to MaxFormatCm.                                  *)
(***************************************************************************)
MaxFormatCm == 400
FormatManeuvers ==
    {NoManeuver, Maneuver("start", 0, Pt(0, 0), 0, "Start"),
     Maneuver("arrive", 2, Pt(100, 100), 200, "Arrive"),
     Maneuver("left", 1, Pt(100, 0), 100, "Turn left"),
     Maneuver("right", 1, Pt(100, 0), 100, "Turn right"),
     Maneuver("uturn", 1, Pt(100, 0), 100, "Make a U-turn")}
FormatDistances == {NoDistance} \cup {d \in 0..MaxFormatCm : d % 10 = 0}

FormatInit ==
    /\ fnArgs \in [maneuver : FormatManeuvers, distanceMeters : FormatDistances]
    /\ fnResult = <<>>
    /\ fnPc = "call"

FormatCall ==
    /\ fnPc = "call"
    /\ fnResult' = formatNextInstruction(fnArgs.maneuver, fnArgs.distanceMeters)
    /\ fnPc' = "formatNextInstruction"
    /\ UNCHANGED <<fnArgs, now, routeVars, navVars, posVars>>

InitFormat == FormatInit /\ RouteIdle /\ NavInit /\ PosInit /\ now = Epoch
NextFormat == FormatCall
SpecFormat == InitFormat /\ [][NextFormat]_vars

(***************************************************************************)
(* headingDiff applied to pairs of wrapped headings.                       *)
(***************************************************************************)
HeadingStep == 15
Headings == {h \in 0..359 : h % HeadingStep = 0 \/ h % 90 \in {1, 89}}

HeadingInit ==
    /\ fnArgs \in [a : Headings, b : Headings]
    /\ fnResult = <<>>
    /\ fnPc = "call"

HeadingCall ==
    /\ fnPc = "call"
    /\ fnResult' = [diff |-> headingDiff(fnArgs.a, fnArgs.b),
                    self |-> headingDiff(fnArgs.a, fnArgs.a)]
    /\ fnPc' = "headingDiff"
    /\ UNCHANGED <<fnArgs, now, routeVars, navVars, posVars>>

InitHeading == HeadingInit /\ RouteIdle /\ NavInit /\ PosInit /\ now = Epoch
NextHeading == HeadingCall
SpecHeading == InitHeading /\ [][NextHeading]_vars

(***************************************************************************)
(* The augmented graph, stated independently of the adjacency lists: the   *)
(* arcs of the map's edges with known endpoints plus the virtual edges.    *)
(***************************************************************************)
AugArcs(map, startPoint) ==
    LET es == map.edges \o
              virtualEdges(map, snapToGraph(map, startPoint, SnapOpts(RouteSnapMeters)),
                           startPoint)
        ids == {map.nodes[k].id : k \in 1..Len(map.nodes)} \cup {virtualId}
        ok(e) == e.from \in ids /\ e.to \in ids
    IN  {<<es[k].from, es[k].to>> : k \in {j \in 1..Len(es) : ok(es[j])}}
        \cup {<<es[k].to, es[k].from>> :
                k \in {j \in 1..Len(es) : ok(es[j]) /\ es[j].bidirectional # FALSE}}

RECURSIVE ReachFrom(_, _)
ReachFrom(arcs, seen) ==
    LET next(more) == IF more = seen THEN seen ELSE ReachFrom(arcs, more)
    IN  CHOOSE r \in {next(m) : m \in {seen \cup {a[2] : a \in {b \in arcs : b[1] \in seen}}}} : TRUE

Reachable(map, startPoint, id) ==
    \E arcs \in {AugArcs(map, startPoint)} : id \in ReachFrom(arcs, {virtualId})

\* C10: shortestPathFromPoint returns None exactly when the destination is not a
\* node of the map or is not reachable from the virtual start in the augmented
\* graph; otherwise the path starts at the virtual start and ends at the destination.
C10_NoneIffUnknownOrUnreachable ==
    rPc = "done" =>
        LET map == Maps[rMap] IN
        /\ (rResult = NoPath) <=> (~HasNode(map, rEnd) \/ ~Reachable(map, rStart, rEnd))
        /\ rResult.ok => /\ Len(rResult.nodeIds) >= 2
                         /\ rResult.nodeIds[1] = virtualId
                         /\ rResult.nodeIds[Len(rResult.nodeIds)] = rEnd
                         /\ Len(rResult.points) = Len(rResult.nodeIds)

\* A path over two graph nodes was returned from a start snapped onto an edge.
C10_Witness ==
    /\ rPc = "done" /\ rResult.ok /\ Len(rResult.nodeIds) >= 3
    /\ rMap = 1 /\ rEnd = "w3"

\* An existing destination behind a one-way edge yields None.
C10_WitnessNone ==
    rPc = "done" /\ rResult = NoPath /\ rMap = 1 /\ rEnd = "p1" /\ rStart = Pt(200, 0)

(***************************************************************************)
(* Minimality, stated independently of the search: the least summed weight *)
(* from the virtual start by repeated relaxation of every arc.             *)
(***************************************************************************)
AugWeightedArcs(map, startPoint) ==
    LET es == map.edges \o
              virtualEdges(map, snapToGraph(map, startPoint, SnapOpts(RouteSnapMeters)),
                           startPoint)
        snapped == snapToGraph(map, startPoint, SnapOpts(RouteSnapMeters)).snapped
        ids == {map.nodes[k].id : k \in 1..Len(map.nodes)} \cup {virtualId}
        at(id) == IF id = virtualId THEN Pt(snapped.x, snapped.y)
                  ELSE Pt(nodeById(map, id).x, nodeById(map, id).y)
        ok(e) == e.from \in ids /\ e.to \in ids
        w(e) == IF e.distance # NoDistance THEN e.distance ELSE dist(at(e.from), at(e.to))
    IN  {<<es[k].from, es[k].to, w(es[k])>> : k \in {j \in 1..Len(es) : ok(es[j])}}
        \cup {<<es[k].to, es[k].from, w(es[k])>> :
                k \in {j \in 1..Len(es) : ok(es[j]) /\ es[j].bidirectional # FALSE}}

MinOf(S) == CHOOSE x \in S : \A y \in S : x <= y

RECURSIVE LeastWeights(_, _, _)
LeastWeights(arcs, d, rounds) ==
    IF rounds = 0 THEN d
    ELSE LET better(v) == {d[a[1]] + a[3] : a \in {b \in arcs : b[2] = v /\ d[b[1]] < Infinity}}
         IN  CHOOSE r \in
               {LeastWeights(arcs, n, rounds - 1) :
                  n \in {[v \in DOMAIN d |-> MinOf({d[v]} \cup better(v))]}} : TRUE

LeastWeight(map, startPoint, id) ==
    LET ids == {map.nodes[k].id : k \in 1..Len(map.nodes)} \cup {virtualId}
    IN  LeastWeights(AugWeightedArcs(map, startPoint),
                     [v \in ids |-> IF v = virtualId THEN 0 ELSE Infinity],
                     Cardinality(ids))[id]

\* The summed weight of a node path, Infinity when two neighbours have no arc.
RECURSIVE PathWeight(_, _, _)
PathWeight(arcs, nodeIds, i) ==
    IF i > Len(nodeIds) THEN 0
    ELSE LET ws == {a[3] : a \in {b \in arcs : b[1] = nodeIds[i - 1] /\ b[2] = nodeIds[i]}}
         IN  IF ws = {} THEN Infinity ELSE MinOf(ws) + PathWeight(arcs, nodeIds, i + 1)

\* C11: the node path shortestPathFromPoint returns has the least summed edge
\* weight (edge.distance if set, else the Euclidean length) among all paths from
\* the virtual start to the destination in the augmented graph, one-way edges
\* being usable from `from` to `to` only and edges with unknown endpoints ignored.
C11_PathHasLeastWeight ==
    (rPc = "done" /\ rResult.ok) =>
        PathWeight(AugWeightedArcs(Maps[rMap], rStart), rResult.nodeIds, 2)
            = LeastWeight(Maps[rMap], rStart, rEnd)

\* In the triangle the detour over b was returned although a direct edge a-c
\* with a larger distance exists.
C11_Witness ==
    /\ rPc = "done" /\ rResult.ok /\ rMap = 3 /\ rEnd = "c"
    /\ rResult.nodeIds = <<virtualId, "b", "c">>

(***************************************************************************)
(* The virtual edges of the start.                                         *)
(***************************************************************************)
RouteSnapped == snapToGraph(Maps[rMap], rStart, SnapOpts(RouteSnapMeters))

\* The nodes the virtual start is connected to.
VirtualTargets ==
    LET ves == virtualEdges(Maps[rMap], RouteSnapped, rStart)
    IN  {ves[k].to : k \in 1..Len(ves)}

\* The nodes of the map no other node is closer to the start point than.
NearestNodes ==
    LET ns == Maps[rMap].nodes
    IN  {ns[k].id : k \in {j \in 1..Len(ns) :
                              \A i \in 1..Len(ns) : dist(rStart, ns[j]) <= dist(rStart, ns[i])}}

\* C25: the virtual start is connected to both endpoints of an edge only when
\* the start point snapped to that edge, within the 3.0 m limit; when it did
\* not snap to any edge, the virtual start is connected to the nearest node by
\* Euclidean distance and to nothing else.
C25_VirtualEdgesFollowTheSnap ==
    (rPc = "done" /\ HasNode(Maps[rMap], rEnd)) =>
        \E s \in {RouteSnapped} :
            IF s.edge # NoEdge /\ s.distance <= RouteSnapMeters
            THEN VirtualTargets \subseteq {s.edge.from, s.edge.to}
            ELSE Cardinality(VirtualTargets) <= 1 /\ VirtualTargets \subseteq NearestNodes

\* The moves a map's edges allow: from `from` to `to`, and back unless the
\* edge is one-way.
MapMoves(map) ==
    LET es == map.edges
    IN  {<<es[k].from, es[k].to>> : k \in 1..Len(es)}
        \cup {<<es[k].to, es[k].from>> : k \in {j \in 1..Len(es) : es[j].bidirectional # FALSE}}

\* The start snapped onto a one-way edge, past its `from` endpoint, and the
\* path's first leg goes back to that endpoint.
FirstLegAgainstOneWay ==
    \E s \in {RouteSnapped} :
        /\ s.edge # NoEdge /\ s.distance <= RouteSnapMeters
        /\ <<s.edge.to, s.edge.from>> \notin MapMoves(Maps[rMap])
        /\ Pt(s.snapped.x, s.snapped.y)
               # Pt(nodeById(Maps[rMap], s.edge.from).x, nodeById(Maps[rMap], s.edge.from).y)
        /\ rResult.nodeIds[2] = s.edge.from

\* C30: no returned path moves along a one-way edge against its direction:
\* every leg between two nodes of the map is a move the map allows, and the
\* first leg does not go from a start snapped onto a one-way edge back to the
\* edge's `from` endpoint.
C30_NeverAgainstOneWay ==
    (rPc = "done" /\ rResult.ok) =>
        /\ \A i \in 3..Len(rResult.nodeIds) :
               <<rResult.nodeIds[i - 1], rResult.nodeIds[i]>> \in MapMoves(Maps[rMap])
        /\ ~FirstLegAgainstOneWay

FixConfidence ==
    LET f == fnArgs.fix
        base == clamp(((f.bestLevel + 100) * 10000) \div 55, 1500, 9500)
        boost == clamp(800 * (f.matched - 1), 0, 2000)
    IN  clamp(base + boost, 1500, 9800)

\* The fix is more than 10 m from the Kalman centre (squared centimetres).
FixIsFar ==
    LET dx == fnArgs.kalmanRef.x - fnArgs.fix.x
        dy == fnArgs.kalmanRef.y - fnArgs.fix.y
    IN  dx * dx + dy * dy > 1000 * 1000

C20_DisablingDropsKalman ==
    ~state.wifi.enabled =>
        /\ kalmanRef = NoKalman
        /\ (posLog.kind \in {"pedometer", "deviceMotion"} /\ posLog.emitted) =>
               state.pose.source = "pdr"

\* C21: from every session state, turning the Wi-Fi corrections off and then on
\* again leaves the PDR engine's fused heading as it was before they were turned
\* off (the graph and the anchors are args and no action of the model assigns
\* them).
C21_OffThenOnKeepsHeading ==
    (posLog.kind = "wifiEnabled" /\ wifiEnabled /\ posLog.justOff)
        => engineRef.headingDeg = posLog.offHeading

\* C28: in every state of a positioning session a Kalman state exists exactly
\* when Wi-Fi integration is enabled, also after a scan that began while it was
\* enabled has completed once it was disabled.
C28_KalmanIffWifiEnabled ==
    enabled => ((kalmanRef # NoKalman) <=> wifiEnabled)

(***************************************************************************)
(* Snap-to-graph, stated over sets of edges instead of the loop.           *)
(***************************************************************************)
SnapMap == SnapMaps[fnArgs.map]
\* The edges (by position in the map) that can be projected on: usable, both
\* endpoints known.
SnapCandidates ==
    {k \in 1..Len(SnapMap.edges) :
        LET e == SnapMap.edges[k]
        IN  /\ (e.distance # NoDistance /\ e.distance > 0) \/ e.bidirectional # FALSE
            /\ HasNode(SnapMap, e.from) /\ HasNode(SnapMap, e.to)}
SnapIncident ==
    {k \in SnapCandidates :
        {SnapMap.edges[k].from, SnapMap.edges[k].to}
            \cap {fnArgs.previousEdge.from, fnArgs.previousEdge.to} # {}}
SnapDistance(k) ==
    LET e == SnapMap.edges[k]
        a == nodeById(SnapMap, e.from)
        b == nodeById(SnapMap, e.to)
    IN  projectPointToSegment(fnArgs.point, Pt(a.x, a.y), Pt(b.x, b.y)).distance
SnapPenalty(k) ==
    LET e == SnapMap.edges[k]
        prev == fnArgs.previousEdge
    IN  IF prev = NoEdge THEN fnArgs.switchPenaltyMeters
        ELSE IF {e.from, e.to} = {prev.from, prev.to}
                /\ (<<e.from, e.to>> = <<prev.from, prev.to>> \/ <<e.from, e.to>> = <<prev.to, prev.from>>)
             THEN 0
        ELSE IF {e.from, e.to} \cap {prev.from, prev.to} # {} THEN 8
        ELSE fnArgs.switchPenaltyMeters
\* The first edge of K in map order with the least distance + penalty.
SnapWinner(K) ==
    CHOOSE k \in K :
        \A j \in K : \/ SnapDistance(k) + SnapPenalty(k) < SnapDistance(j) + SnapPenalty(j)
                     \/ /\ SnapDistance(k) + SnapPenalty(k) = SnapDistance(j) + SnapPenalty(j)
                        /\ k <= j
SnapEdgeId(k) == [from |-> SnapMap.edges[k].from, to |-> SnapMap.edges[k].to]
SnapReturnedIncident ==
    {fnResult.edge.from, fnResult.edge.to}
        \cap {fnArgs.previousEdge.from, fnArgs.previousEdge.to} # {}

\* C26: with hardClamp set and at least one usable edge with known endpoints,
\* snapToGraph returns a point lying on a usable edge of the map, the edge it
\* reports, and not the input point left unsnapped, for every query point,
\* previous edge and maxSnapMeters.
C26_HardClampAlwaysOnAnEdge ==
    (fnPc = "snapToGraph" /\ fnArgs.hardClamp /\ SnapCandidates # {}) =>
        /\ fnResult.found
        /\ \E k \in SnapCandidates :
              LET a == nodeById(SnapMap, SnapMap.edges[k].from)
                  b == nodeById(SnapMap, SnapMap.edges[k].to)
              IN  /\ fnResult.edge = SnapEdgeId(k)
                  /\ projectPointToSegment(fnResult.snapped, Pt(a.x, a.y), Pt(b.x, b.y)).distance = 0
                  /\ fnResult.distance = dist(fnArgs.point, fnResult.snapped)

\* hardClamp brought a point further than maxSnapMeters from every edge onto one.
C26_Witness ==
    /\ fnPc = "snapToGraph" /\ fnArgs.hardClamp
    /\ \A k \in SnapCandidates : SnapDistance(k) > fnArgs.maxSnapMeters
    /\ fnResult.found /\ fnResult.snapped # fnArgs.point
    /\ fnArgs.previousEdge # NoEdge

\* C13: whenever the map has at least one edge, the distance snapToGraph reports
\* is no larger than the distance from the query point to any edge endpoint,
\* for every previous edge, switch penalty and hardClamp setting.
C13_DistanceAtMostToAnyEndpoint ==
    (fnPc = "snapToGraph" /\ SnapCandidates # {}) =>
        \A k \in SnapCandidates :
            \A id \in {SnapMap.edges[k].from, SnapMap.edges[k].to} :
                fnResult.distance <= dist(fnArgs.point, Pt(nodeById(SnapMap, id).x,
                                                           nodeById(SnapMap, id).y))

\* C14: with hardClamp and a previous edge that has a usable incident edge,
\* snapToGraph returns an edge not incident to the previous edge's endpoints only
\* if the best incident edge is farther than 2.25 maxSnapMeters from the point
\* and the returned edge is closer than it by more than 0.2 m.
C14_LeavesCorridorOnlyWhenFar ==
    (/\ fnPc = "snapToGraph" /\ fnArgs.hardClamp /\ fnArgs.previousEdge # NoEdge
     /\ SnapIncident # {}
     /\ ~SnapReturnedIncident)
    => /\ 4 * SnapDistance(SnapWinner(SnapIncident)) > 9 * fnArgs.maxSnapMeters
       /\ fnResult.distance + 20 < SnapDistance(SnapWinner(SnapIncident))

\* snapToGraph left the corridor of the previous edge under hardClamp.
C14_Witness ==
    /\ fnPc = "snapToGraph" /\ fnArgs.hardClamp /\ fnArgs.previousEdge # NoEdge
    /\ SnapIncident # {}
    /\ fnResult.edge # NoEdge
    /\ ~SnapReturnedIncident

\* C15: with hardClamp and a previous edge, whenever the best incident edge is
\* farther than 2.25 maxSnapMeters from the point and some usable edge is closer
\* to the point than it by more than 0.2 m, snapToGraph relocalizes to that
\* closer edge, for every switchPenaltyMeters.
C15_RelocalizesWhenFar ==
    (/\ fnPc = "snapToGraph" /\ fnArgs.hardClamp /\ fnArgs.previousEdge # NoEdge
     /\ SnapIncident # {}
     /\ 4 * SnapDistance(SnapWinner(SnapIncident)) > 9 * fnArgs.maxSnapMeters
     /\ \E k \in SnapCandidates :
            SnapDistance(k) + 20 < SnapDistance(SnapWinner(SnapIncident)))
    => fnResult.distance + 20 < SnapDistance(SnapWinner(SnapIncident))

\* C16: without hardClamp snapToGraph selects the usable edge that minimises
\* projection distance + penalty (0 for the previous edge in either orientation,
\* 0.08 m for an edge sharing an endpoint with it, switchPenaltyMeters
\* otherwise; the first in map order on ties) and reports the projection
\* distance without the penalty.
C16_SelectsLeastScore ==
    (fnPc = "snapToGraph" /\ ~fnArgs.hardClamp) =>
        IF SnapCandidates = {} THEN fnResult.edge = NoEdge
        ELSE /\ fnResult.edge = SnapEdgeId(SnapWinner(SnapCandidates))
             /\ fnResult.distance = SnapDistance(SnapWinner(SnapCandidates))

\* The previous edge was kept although another edge is nearer to the point.
C16_Witness ==
    /\ fnPc = "snapToGraph" /\ ~fnArgs.hardClamp /\ fnArgs.map = 1
    /\ fnArgs.previousEdge = [from |-> "a2", to |-> "a1"]
    /\ fnResult.edge = [from |-> "a1", to |-> "a2"]
    /\ \E k \in SnapCandidates : SnapDistance(k) < fnResult.distance

(***************************************************************************)
(* Turn-by-turn                                                            *)
(***************************************************************************)
\* The size of the turn at the vertex with 0-based index i, whichever way round
\* half a turn is signed.
TurnSize(polyline, i) ==
    LET r == (bearingDeg(polyline[i + 1], polyline[i + 2])
              - bearingDeg(polyline[i], polyline[i + 1])) % 360
    IN  IF r > 180 THEN 360 - r ELSE r

ManeuversOfType(ms, type) == {k \in 1..Len(ms) : ms[k].type = type}

StartArriveAndTurns(polyline, ms) ==
    /\ ManeuversOfType(ms, "start") = {1}
    /\ ms[1].atIndex = 0
    /\ ManeuversOfType(ms, "arrive") = {Len(ms)}
    /\ ms[Len(ms)].atIndex = Len(polyline) - 1
    /\ \A k \in 2..(Len(ms) - 1) :
          /\ ms[k].atIndex \in 1..(Len(polyline) - 2)
          /\ TurnSize(polyline, ms[k].atIndex) >= 28

C18_InstructionTable ==
    (fnPc = "formatNextInstruction" /\ fnArgs.distanceMeters # NoDistance) =>
        fnResult =
            IF fnArgs.maneuver = NoManeuver THEN "Select a destination"
            ELSE IF fnArgs.maneuver.type = "start" THEN "Start walking"
            ELSE IF fnArgs.maneuver.type = "arrive"
                 THEN (IF fnArgs.distanceMeters < 200 THEN "Arrive"
                       ELSE "Continue to destination")
            ELSE "In " \o ToString(ceilMeters(fnArgs.distanceMeters)) \o "m, "
                 \o toLowerCase(fnArgs.maneuver.instruction)

(***************************************************************************)
(* Heading arithmetic                                                      *)
(***************************************************************************)
\* C12: for all headings a and b, headingDiff(a, b) lies in (-180, +180], a
\* difference of exactly half a turn being reported as +180, and
\* headingDiff(a, a) = 0.
C12_HeadingDiffRange ==
    fnPc = "headingDiff" =>
        /\ fnResult.diff > -180
        /\ fnResult.diff <= 180
        /\ (wrapHeading(fnArgs.a - fnArgs.b) = 180 => fnResult.diff = 180)
        /\ fnResult.self = 0

(***************************************************************************)
(* Navigation service: reroute scheduling                                  *)
(***************************************************************************)
\* C1: while enabled and with destination and map unchanged, any two route
\* recomputations (recalc runs that store a route) are at least 1500 ms apart.
C1_RecalcsAtLeast1500Apart ==
    navLog.prev # 0 => navLog.last - navLog.prev >= RerouteMinGapMs

\* The off-route branch on its own: with the timer armed at t0 by an earlier
\* update and the position still off the route, it calls recalc only after
\* persistMs and only 1500 ms after its own last call, once, and keeps t0 until then.
OffRouteTriggerRule ==
    (navLog.wasOff /\ navLog.armedAt # 0 /\ navLog.steady) =>
        /\ navLog.triggers <= 1
        /\ navLog.triggers = 1 <=>
              (navLog.at - navLog.armedAt > PersistMs /\
               navLog.at - navLog.refBefore >= RerouteMinGapMs)
        /\ navLog.triggers = 0 => offRouteSinceRef = navLog.armedAt

\* C8: while the position stays off the route from t0 on, the timer keeps t0, no
\* recalc happens at an update up to t0 + persistMs, and recalc happens exactly
\* once at the first update after t0 + persistMs that is 1500 ms after the last recalc.
C8_OffRouteRecalcOnlyAfterPersist ==
    (navLog.kind = "position" /\ navLog.wasOff /\ navLog.armedAt # 0 /\ navLog.steady) =>
        /\ navLog.at <= navLog.armedAt + PersistMs => navLog.runs = 0
        /\ (navLog.at > navLog.armedAt + PersistMs /\
            navLog.at - navLog.before >= RerouteMinGapMs) => navLog.runs = 1
        /\ navLog.runs = 0 => offRouteSinceRef = navLog.armedAt

\* The off-route branch has called recalc.
OffRouteTriggerWitness == navLog.triggers = 1 /\ navLog.wasOff /\ navLog.armedAt # 0

\* C22: a position update to another point while a route is stored, which
\* changes neither enabled nor the destination nor the map, and whose progress
\* effect triggers no reroute, leaves the stored route unchanged.
C22_PositionUpdateKeepsRoute ==
    [][(/\ navEnabled /\ navEnabled' /\ destinationId' = destinationId
        /\ current # NoPoint /\ current' # current /\ route # NoPath
        /\ navLog'.kind = "position" /\ navLog'.triggers = 0)
         => route' = route]_vars

\* C29: with a stored route and a computed progress the next maneuver is never
\* null and the instruction never "Select a destination"; at every position
\* within 0.5 m of the end of the route the next maneuver is the arrive
\* maneuver.
C29_NextManeuverNeverNull ==
    (fnPc = "guidance" /\ fnResult.out.computed) =>
        /\ fnResult.out.nextManeuver # NoManeuver
        /\ fnResult.out.nextInstruction # "Select a destination"
        /\ dist(fnArgs.current, fnResult.route.points[Len(fnResult.route.points)]) <= 50
              => fnResult.out.nextManeuver.type = "arrive"

\* C27: after the destination changed while navigation is enabled, the stored
\* route is null or ends at the current destination.
C27_NoRouteToPreviousDestination ==
    (navLog.kind = "destination" /\ navEnabled) =>
        \/ route = NoPath
        \/ route.nodeIds[Len(route.nodeIds)] = destinationId


(***************************************************************************)
(* Positioning session                                                     *)
(***************************************************************************)
\* The running sessions the walks begin in are states of a session from construction.
RunningWithWifi == Running(TRUE)

\* C2: when the session is stopped while a Wi-Fi scan is in flight, the scan's
\* result is discarded: it changes neither the Kalman state nor the pose nor the
\* path buffer, and no pose is emitted for it.
C2_StoppedScanDiscarded ==
    (posLog.kind = "scan" /\ posLog.stopped) => ~posLog.applied

\* C3: once stop has run and the asynchronous start sequence has finished, no
\* magnetometer, device-motion or pedometer subscription and no Wi-Fi timer of
\* that start is active.
C3_NothingActiveAfterStop ==
    \A i \in 1..MaxEffects :
        (effects[i].cancelled /\ effects[i].pc = "done") =>
            /\ ~effects[i].magSub
            /\ ~effects[i].devMotionSub
            /\ ~effects[i].pedSub
            /\ ~effects[i].wifiTimer

\* C4: the timestamps of successively emitted poses never decrease, however
\* step events and Wi-Fi scan completions interleave.
C4_PoseTimestampsNeverDecrease ==
    [][(state.pose # NoPose /\ state'.pose # NoPose) => state'.pose.ts >= state.pose.ts]_vars

\* C5: no Wi-Fi fix is applied before resetTo has set the initial position, also
\* when scanWifiNow is invoked before the session is enabled.
C5_NoFixBeforeReset ==
    (posLog.kind = "scan" /\ posLog.applied) => posLog.resetDone

\* C6: no pedometer step event is emitted when a device-motion step event was
\* emitted less than 1800 ms earlier.
C6_NoPedometerStepAfterDeviceStep ==
    (posLog.kind = "pedometer" /\ posLog.emitted /\ posLog.lastDeviceStepAt # 0) =>
        posLog.at - posLog.lastDeviceStepAt >= RecentStepMs

\* A pedometer count that exceeded the last one arrived less than 1800 ms after
\* a device-motion step and no step event was emitted for it.
C6_Witness ==
    /\ posLog.kind = "pedometer"
    /\ posLog.increase > 0
    /\ posLog.lastDeviceStepAt # 0
    /\ posLog.at - posLog.lastDeviceStepAt < RecentStepMs
    /\ ~posLog.emitted

\* C7: whenever a cumulative pedometer count larger than the last one seen
\* arrives and no device-motion step was emitted in the preceding 1800 ms, a
\* pedometer step event is emitted whose count is the increase.
C7_PedometerIncreaseEmitted ==
    (/\ posLog.kind = "pedometer"
     /\ posLog.increase > 0
     /\ (posLog.lastDeviceStepAt = 0 \/ posLog.at - posLog.lastDeviceStepAt >= RecentStepMs))
    => (posLog.emitted /\ posLog.count = posLog.increase)

\* A device-motion step event is emitted in this step.
DeviceStepEmitted ==
    posLog'.kind = "deviceMotion" /\ posLog'.emitted /\ state'.steps = state.steps + 1

\* The detector finds the device stationary after this step's sample.
StationaryAfter ==
    engineRef'.stationarySince # 0 /\ now - engineRef'.stationarySince > StationaryMs

\* C24: a device-motion step is emitted only at a peak exit, which ends the
\* peak, only if more than 280 ms have passed since the previous step event,
\* and only if the detector is not stationary; two consecutive device-motion
\* step events are more than 280 ms apart.
C24_DeviceStepsMoreThan280Apart ==
    [][DeviceStepEmitted =>
         /\ engineRef.inPeak /\ ~engineRef'.inPeak
         /\ ~StationaryAfter
         /\ posLog.lastStepEventAt # 0 => now - posLog.lastStepEventAt > MinStepIntervalMs
         /\ posLog.lastDeviceStepAt # 0 => now - posLog.lastDeviceStepAt > MinStepIntervalMs]_vars

\* C24 amended: the same, the previous step event being one since the engine
\* was last reset (state.steps counts the step events since resetTo).
C24_DeviceStepsApartSinceReset ==
    [][DeviceStepEmitted =>
         /\ engineRef.inPeak /\ ~engineRef'.inPeak
         /\ ~StationaryAfter
         /\ state.steps > 0 =>
               /\ now - posLog.lastStepEventAt > MinStepIntervalMs
               /\ now - posLog.lastDeviceStepAt > MinStepIntervalMs]_vars

\* A second device-motion step since the reset was emitted, three ticks after
\* the step event before it.
C24_Witness ==
    /\ posLog.kind = "deviceMotion" /\ posLog.emitted /\ state.steps >= 2
    /\ posLog.stepBefore # 0 /\ posLog.at - posLog.stepBefore = 3 * DetectTickMs

\* C9: the path buffer never holds more than 240 points.
C9_PathAtMost240 == Len(state.path) <= PathLimit

\* A pose was appended to a full buffer.
C9_Witness ==
    /\ Len(state.path) = PathLimit
    /\ posLog.lenBefore = PathLimit
    /\ posLog.kind = "scan"
    /\ posLog.applied

====
